---- MODULE Spec2Model ----
(***************************************************************************)
(* Verification model of the drive-resolver service                        *)
(* (src/docker/drive-resolver/resolver.py): the permission-scoped Drive    *)
(* gateway, the TTL- and size-bounded disk cache in front of it and the    *)
(* in-process metadata cache.                                              *)
(*                                                                         *)
(* Time is a discrete clock `now`; a file's mtime is the clock value at    *)
(* the moment it was written, and the clock may or may not advance between *)
(* two operations.                                                         *)
(***************************************************************************)
EXTENDS Integers, Sequences, FiniteSets, TLC

(***************************************************************************)
(* Bounds of the model.                                                    *)
(***************************************************************************)
\* the clock runs over 0..MaxClock
MaxClock == 2
\* a downloaded file has between 1 and MaxFileSize bytes
MaxFileSize == 3

(***************************************************************************)
(* Configuration (CONFIG['cache'][...]), in clock ticks and bytes.         *)
(***************************************************************************)
\* CONFIG['cache']['ttl_hours']
ttl_hours == 1
\* CONFIG['cache']['max_size_mb'] * 1024 * 1024
max_size_bytes == 2

(***************************************************************************)
(* The remote store: file identifiers, folder identifiers, file names.     *)
(***************************************************************************)
FileIds == {"f1", "f2", "f3"}
FolderIds == {"A", "B"}

\* The name of a remote file: a stem (a sequence of characters) and a suffix.
FileName(file_id) ==
    CASE file_id = "f1" -> [stem |-> <<"S", "5">>, suffix |-> ".pdf"]
      [] file_id = "f2" -> [stem |-> <<"S", "7">>, suffix |-> ".docx"]
      [] OTHER          -> [stem |-> <<"R", "5">>, suffix |-> ".pdf"]

\* The calls the service makes on the Drive API.
DriveCalls == {"parents", "get", "get_media", "list"}

\* no Drive call fails during an operation, or the calls of one kind do
FaultsOf(calls) == {{}} \cup {{c} : c \in calls}

VARIABLES
    now,              \* the wall clock
    allowed_folders,  \* DriveResolver.allowed_folders
    parents,          \* remote store: the parent folders of each file
    trashed,          \* remote store: the trashed flag of each file
    cache_dir,        \* the files of cache_path: path -> [size, mtime, ...]
    metadata_cache,   \* the TTLCache: file id -> [value, expires]
    last,             \* the outcome of the last operation
    cleanup,          \* the trace of the last cleanup pass
    threads,          \* the requests in flight: thread -> its position and locals
    store,            \* the relational store: table -> its rows
    uuids,            \* the number of identifiers uuid4() has handed out
    runs,             \* the sync_standard calls in flight: runner -> position and locals
    finished,         \* the calls of sync_standard that returned, in order
    documents         \* what the parser returns for each remote file

vars == <<now, allowed_folders, parents, trashed, cache_dir, metadata_cache,
          last, cleanup, threads, store, uuids, runs, finished, documents>>

\* the variables of the resolver and those of the synchronisation
ResolverVars == <<now, allowed_folders, parents, trashed, cache_dir,
                  metadata_cache, last, cleanup, threads>>
SyncVars == <<store, uuids, runs, finished, documents>>

\* a directory, or a metadata cache, that holds nothing
Empty == [q \in {} |-> 0]

\* the relational store with no rows
EmptyStore ==
    [Standard |-> {}, StandardSection |-> {}, StandardClause |-> {},
     SyncHistory |-> {}]

\* no synchronisation has run
NoSync ==
    /\ store = EmptyStore
    /\ uuids = 0
    /\ runs = Empty
    /\ finished = <<>>
    /\ documents = Empty

(***************************************************************************)
(* Cache paths and freshness.                                              *)
(***************************************************************************)
\* hashlib.sha256(file_id.encode()).hexdigest(): one key per identifier
_get_cache_key(file_id) == <<"sha256", file_id>>

\* cache_path / f"{cache_key}{extension}"
_get_cached_file_path(file_id, file_name) ==
    <<_get_cache_key(file_id), file_name.suffix>>

CachePaths == {_get_cached_file_path(f, FileName(f)) : f \in FileIds}

\* the comparison of _is_cache_valid inverted
is_cache_valid_inverted(dir, file_path, t) ==
    IF file_path \notin DOMAIN dir
    THEN FALSE
    ELSE (t - dir[file_path].mtime) > ttl_hours

\* _is_cache_valid on the directory `dir` at time `t`
_is_cache_valid(dir, file_path, t) ==
    IF file_path \notin DOMAIN dir
    THEN FALSE
    ELSE (t - dir[file_path].mtime) < ttl_hours

\* the directory with file_path (over)written
WriteFile(dir, file_path, entry) ==
    [q \in (DOMAIN dir) \cup {file_path} |->
        IF q = file_path THEN entry ELSE dir[q]]

\* the directory without the files of `gone`
Unlink(dir, gone) == [q \in (DOMAIN dir) \ gone |-> dir[q]]

RECURSIVE SumSizes(_, _)
SumSizes(dir, ps) ==
    IF ps = {} THEN 0
    ELSE LET p == CHOOSE x \in ps : TRUE
         IN  dir[p].size + SumSizes(dir, ps \ {p})

\* the aggregate size of a directory
TotalSize(dir) == SumSizes(dir, DOMAIN dir)

(***************************************************************************)
(* DriveResolver._cleanup_cache.                                           *)
(***************************************************************************)
\* the (path, size, mtime) list built by the glob loop; `order` is the order
\* in which glob yields the paths, which the file system decides
FilesWithAge(dir, order) ==
    [i \in 1..Len(order) |->
        [path |-> order[i], size |-> dir[order[i]].size,
         mtime |-> dir[order[i]].mtime]]

\* all the orders in which glob may yield the files of `dir`
GlobOrders(dir) ==
    {o \in [1..Cardinality(DOMAIN dir) -> DOMAIN dir] :
        \A i, j \in DOMAIN o : i # j => o[i] # o[j]}

\* file_age > max_age
IsExpired(e, t) == (t - e.mtime) > ttl_hours

\* phase 1 unlinking the expired files without removing them from the list
remove_expired_kept(files, t) == files

\* phase 1: the list without the expired files (each is unlinked and
\* removed from the list)
RemoveExpired(files, t) == SelectSeq(files, LAMBDA e : ~IsExpired(e, t))

\* insertion of e behind every element that is not younger (list.sort is stable)
RECURSIVE InsertByMtime(_, _)
InsertByMtime(sorted, e) ==
    IF sorted = <<>> THEN <<e>>
    ELSE IF Head(sorted).mtime <= e.mtime
         THEN <<Head(sorted)>> \o InsertByMtime(Tail(sorted), e)
         ELSE <<e>> \o sorted

RECURSIVE SortHelper(_, _)
SortHelper(files, acc) ==
    IF files = <<>> THEN acc
    ELSE SortHelper(Tail(files), InsertByMtime(acc, Head(files)))

\* the sort left out: the list stays in glob order
sort_skipped(files) == files

\* files_with_age.sort(key=lambda x: x[2])
SortOldestFirst(files) == SortHelper(files, <<>>)

\* the eviction loop breaking only below the cap (< for <=)
RECURSIVE evict_loop_strict(_, _, _, _)
evict_loop_strict(files, total_size, present, evicted) ==
    IF files = <<>> \/ total_size < max_size_bytes
    THEN [evicted |-> evicted, total_size |-> total_size, error |-> FALSE]
    ELSE IF Head(files).path \notin present
         THEN [evicted |-> evicted, total_size |-> total_size, error |-> TRUE]
         ELSE evict_loop_strict(Tail(files), total_size - Head(files).size,
                                present \ {Head(files).path},
                                evicted \cup {Head(files).path})

\* the eviction loop leaving after the first unlink
evict_loop_once(files, total_size, present, evicted) ==
    IF files = <<>> \/ total_size <= max_size_bytes
    THEN [evicted |-> evicted, total_size |-> total_size, error |-> FALSE]
    ELSE IF Head(files).path \notin present
         THEN [evicted |-> evicted, total_size |-> total_size, error |-> TRUE]
         ELSE [evicted |-> evicted \cup {Head(files).path},
               total_size |-> total_size - Head(files).size, error |-> FALSE]

\* the eviction loop of phase 2 over the sorted list: the evicted paths, the
\* running total, and whether an unlink raised (the file was already gone)
RECURSIVE EvictLoop(_, _, _, _)
EvictLoop(files, total_size, present, evicted) ==
    IF files = <<>> \/ total_size <= max_size_bytes
    THEN [evicted |-> evicted, total_size |-> total_size, error |-> FALSE]
    ELSE IF Head(files).path \notin present
         THEN [evicted |-> evicted, total_size |-> total_size, error |-> TRUE]
         ELSE EvictLoop(Tail(files), total_size - Head(files).size,
                        present \ {Head(files).path},
                        evicted \cup {Head(files).path})

SeqRange(s) == {s[i] : i \in DOMAIN s}

RECURSIVE SumSeqSizes(_)
SumSeqSizes(files) ==
    IF files = <<>> THEN 0 ELSE Head(files).size + SumSeqSizes(Tail(files))

\* phase 1 ("Remove expired files"): the expired paths, the list without
\* them and the running total
ExpiryPhase(files_with_age, t) ==
    [expired    |-> {files_with_age[i].path :
                       i \in {k \in DOMAIN files_with_age :
                                IsExpired(files_with_age[k], t)}},
     kept       |-> RemoveExpired(files_with_age, t),
     total_size |-> SumSeqSizes(files_with_age)
                      - SumSeqSizes(SelectSeq(files_with_age,
                                              LAMBDA e : IsExpired(e, t)))]

\* phase 2 ("Enforce size limit") on the outcome of phase 1
SizePhase(dir, p1) ==
    IF p1.total_size > max_size_bytes
    THEN [candidates |-> SortOldestFirst(p1.kept),
          loop |-> EvictLoop(SortOldestFirst(p1.kept), p1.total_size,
                             (DOMAIN dir) \ p1.expired, {})]
    ELSE [candidates |-> p1.kept,
          loop |-> [evicted |-> {}, total_size |-> p1.total_size, error |-> FALSE]]

CleanupTrace(dir, t, p1, p2) ==
    [dir        |-> Unlink(dir, p1.expired \cup p2.loop.evicted),
     ran        |-> TRUE,
     at         |-> t,
     before     |-> dir,
     expired    |-> p1.expired,
     candidates |-> p2.candidates,
     evicted    |-> p2.loop.evicted,
     total_size |-> p2.loop.total_size,
     error      |-> p2.loop.error]

CleanupFrom(dir, t, p1) == CleanupTrace(dir, t, p1, SizePhase(dir, p1))

\* One cleanup pass over `dir` at time t, glob yielding the files in `order`:
\* the directory it leaves and the trace of what it did.
_cleanup_cache(dir, order, t) ==
    CleanupFrom(dir, t, ExpiryPhase(FilesWithAge(dir, order), t))

NoCleanup ==
    [ran |-> FALSE, at |-> 0, before |-> Empty, expired |-> {},
     candidates |-> <<>>, evicted |-> {}, total_size |-> 0, error |-> FALSE]

TraceOf(c) == [c EXCEPT !.dir = Empty]

(***************************************************************************)
(* DriveResolver._check_folder_permission and get_file_metadata.           *)
(* `faults` is the set of Drive calls that raise during the operation      *)
(* (unknown identifier, network or backend failure).                       *)
(***************************************************************************)
\* the remote store's truth: the file is in an allowed folder (or every
\* folder is allowed)
Permitted(file_id) ==
    allowed_folders = {} \/ parents[file_id] \cap allowed_folders # {}

\* the permission check with the allow-list never consulted
check_folder_permission_open(file_id, faults) ==
    IF "parents" \in faults THEN FALSE ELSE TRUE

_check_folder_permission(file_id, faults) ==
    IF "parents" \in faults
    THEN FALSE                      \* except Exception: return False
    ELSE IF allowed_folders = {}
         THEN TRUE
         ELSE \E parent \in parents[file_id] : parent \in allowed_folders

\* `cache_key in metadata_cache`: present and not yet expired
MetadataCached(mcache, file_id, t) ==
    file_id \in DOMAIN mcache /\ t < mcache[file_id].expires

\* metadata_cache[cache_key] = value: expired items are purged, the item is
\* stored with expiry t + ttl
MetadataStore(mcache, file_id, value, t) ==
    LET live == {k \in DOMAIN mcache : t < mcache[k].expires}
    IN  [k \in live \cup {file_id} |->
            IF k = file_id THEN [value |-> value, expires |-> t + ttl_hours]
            ELSE mcache[k]]

FormattedMetadata(file_id) ==
    [fileName |-> FileName(file_id), fileId |-> file_id]

\* get_file_metadata: the outcome, the Drive calls issued, the metadata cache
\* it leaves
get_file_metadata(mcache, file_id, faults, t) ==
    IF MetadataCached(mcache, file_id, t)
    THEN [outcome |-> "ok", calls |-> <<>>, mcache |-> mcache,
          value |-> mcache[file_id].value]
    ELSE IF ~_check_folder_permission(file_id, faults)
    THEN [outcome |-> "PermissionError", calls |-> <<"parents">>,
          mcache |-> mcache, value |-> FormattedMetadata(file_id)]
    ELSE IF "get" \in faults
    THEN [outcome |-> "Error", calls |-> <<"parents", "get">>,
          mcache |-> mcache, value |-> FormattedMetadata(file_id)]
    ELSE [outcome |-> "ok", calls |-> <<"parents", "get">>,
          mcache |-> MetadataStore(mcache, file_id, FormattedMetadata(file_id), t),
          value |-> FormattedMetadata(file_id)]

(***************************************************************************)
(* DriveResolver.download_file, as one step.  `size` is the number of      *)
(* bytes the remote store serves, `order` the order in which the cleanup   *)
(* pass's glob yields the cache files.  The field `checked` of a cache     *)
(* file records whether the file was in an allowed folder when written,    *)
(* the field `complete` whether all the bytes have been written.           *)
(***************************************************************************)
\* what the caller of download_file gets, and what the call did; entry_before
\* is the state of the file's cache entry when the call started
DownloadResult(file_id, use_cache, faults, outcome, calls, path, dir, wrote, cleanups) ==
    [op           |-> "download",
     file_id      |-> file_id,
     use_cache    |-> use_cache,
     faults       |-> faults,
     permitted    |-> Permitted(file_id),
     entry_before |-> IF path \notin DOMAIN cache_dir THEN "absent"
                      ELSE IF now - cache_dir[path].mtime < ttl_hours
                      THEN "fresh" ELSE "stale",
     outcome      |-> outcome,
     cached       |-> outcome = "cached",
     size         |-> IF outcome \in {"cached", "fresh"} THEN dir[path].size ELSE 0,
     calls        |-> calls,
     wrote        |-> wrote,
     cleanups     |-> cleanups,
     unchanged    |-> dir = cache_dir]

\* download_file that streams the transfer into the cache file itself
download_file_in_place(file_id, use_cache, faults, traced) ==
    LET path == _get_cached_file_path(file_id, FileName(file_id))
    IN
    IF ~_check_folder_permission(file_id, faults)
    THEN \* raise PermissionError
         /\ last' = DownloadResult(file_id, use_cache, faults, "PermissionError",
                                   <<"parents">>, path, cache_dir, FALSE, 0)
         /\ UNCHANGED <<cache_dir, metadata_cache, cleanup>>
    ELSE
    LET md == get_file_metadata(metadata_cache, file_id, faults, now)
        calls1 == <<"parents">> \o md.calls
        cached_file_path == _get_cached_file_path(file_id, md.value.fileName)
    IN
    IF md.outcome # "ok"
    THEN \* get_file_metadata raised
         /\ last' = DownloadResult(file_id, use_cache, faults, md.outcome,
                                   calls1, path, cache_dir, FALSE, 0)
         /\ UNCHANGED <<cache_dir, metadata_cache, cleanup>>
    ELSE IF use_cache /\ _is_cache_valid(cache_dir, cached_file_path, now)
    THEN \* cache hit
         /\ last' = DownloadResult(file_id, use_cache, faults, "cached",
                                   calls1, cached_file_path, cache_dir, FALSE, 0)
         /\ metadata_cache' = md.mcache
         /\ UNCHANGED <<cache_dir, cleanup>>
    ELSE IF "get_media" \in faults
    THEN \* the byte transfer raised
         \E truncated \in {WriteFile(cache_dir, cached_file_path,
                                     [size |-> 0, mtime |-> now,
                                      complete |-> FALSE,
                                      checked |-> Permitted(file_id)])} :
            /\ last' = DownloadResult(file_id, use_cache, faults, "Error",
                                      calls1 \o <<"get_media">>,
                                      cached_file_path, truncated, TRUE, 0)
            /\ cache_dir' = truncated
            /\ metadata_cache' = md.mcache
            /\ UNCHANGED cleanup
    ELSE
    \E size \in 1..MaxFileSize :
    LET written == WriteFile(cache_dir, cached_file_path,
                             [size |-> size, mtime |-> now, complete |-> TRUE,
                              checked |-> Permitted(file_id)])
    IN  \E order \in GlobOrders(written) :
           \E pass \in {_cleanup_cache(written, order, now)} :
               /\ cache_dir' = pass.dir
               /\ cleanup' = IF traced THEN TraceOf(pass) ELSE cleanup
               /\ metadata_cache' = md.mcache
               /\ last' = DownloadResult(
                              file_id, use_cache, faults,
                              \* cached_file_path.stat() raises if the file is gone
                              IF cached_file_path \in DOMAIN pass.dir
                              THEN "fresh" ELSE "FileNotFoundError",
                              calls1 \o <<"get_media">>, cached_file_path,
                              pass.dir, TRUE, 1)
download_file(file_id, use_cache, faults, traced) ==
    LET path == _get_cached_file_path(file_id, FileName(file_id))
    IN
    IF ~_check_folder_permission(file_id, faults)
    THEN \* raise PermissionError
         /\ last' = DownloadResult(file_id, use_cache, faults, "PermissionError",
                                   <<"parents">>, path, cache_dir, FALSE, 0)
         /\ UNCHANGED <<cache_dir, metadata_cache, cleanup>>
    ELSE
    LET md == get_file_metadata(metadata_cache, file_id, faults, now)
        calls1 == <<"parents">> \o md.calls
        cached_file_path == _get_cached_file_path(file_id, md.value.fileName)
    IN
    IF md.outcome # "ok"
    THEN \* get_file_metadata raised
         /\ last' = DownloadResult(file_id, use_cache, faults, md.outcome,
                                   calls1, path, cache_dir, FALSE, 0)
         /\ UNCHANGED <<cache_dir, metadata_cache, cleanup>>
    ELSE IF use_cache /\ _is_cache_valid(cache_dir, cached_file_path, now)
    THEN \* cache hit
         /\ last' = DownloadResult(file_id, use_cache, faults, "cached",
                                   calls1, cached_file_path, cache_dir, FALSE, 0)
         /\ metadata_cache' = md.mcache
         /\ UNCHANGED <<cache_dir, cleanup>>
    ELSE IF "get_media" \in faults
    THEN \* the byte transfer raised
         /\ last' = DownloadResult(file_id, use_cache, faults, "Error",
                                   calls1 \o <<"get_media">>, cached_file_path,
                                   cache_dir, FALSE, 0)
         /\ metadata_cache' = md.mcache
         /\ UNCHANGED <<cache_dir, cleanup>>
    ELSE
    \E size \in 1..MaxFileSize :
    LET written == WriteFile(cache_dir, cached_file_path,
                             [size |-> size, mtime |-> now, complete |-> TRUE,
                              checked |-> Permitted(file_id)])
    IN  \E order \in GlobOrders(written) :
           \E pass \in {_cleanup_cache(written, order, now)} :
               /\ cache_dir' = pass.dir
               /\ cleanup' = IF traced THEN TraceOf(pass) ELSE cleanup
               /\ metadata_cache' = md.mcache
               /\ last' = DownloadResult(
                              file_id, use_cache, faults,
                              \* cached_file_path.stat() raises if the file is gone
                              IF cached_file_path \in DOMAIN pass.dir
                              THEN "fresh" ELSE "FileNotFoundError",
                              calls1 \o <<"get_media">>, cached_file_path,
                              pass.dir, TRUE, 1)

(***************************************************************************)
(* DriveResolver.list_files.  The query string is a conjunction of parts,  *)
(* which the remote store evaluates.                                       *)
(***************************************************************************)
NoFolder == ""
NoQuery == <<>>

\* the characters of a file's name
NameText(file_id) == FileName(file_id).stem \o <<FileName(file_id).suffix>>

\* name contains 'text'
NameContains(name, text) ==
    \E i \in 1..(Len(name) - Len(text) + 1) :
        SubSeq(name, i, i + Len(text) - 1) = text

\* the remote store's evaluation of one part of the query on one file
DriveMatches(file_id, part) ==
    CASE part.kind = "in_parents"    -> part.folder \in parents[file_id]
      [] part.kind = "name_contains" -> NameContains(NameText(file_id), part.text)
      [] part.kind = "any_parent"    -> \E fid \in part.folders : fid \in parents[file_id]
      [] OTHER                       -> ~trashed[file_id]   \* trashed = false

\* service.files().list(q=...): the files that satisfy every part
DriveList(q_parts) ==
    {f \in FileIds : \A i \in DOMAIN q_parts : DriveMatches(f, q_parts[i])}

\* the q_parts list that list_files builds
QueryParts(folder_id, query) ==
    (IF folder_id # NoFolder
     THEN <<[kind |-> "in_parents", folder |-> folder_id]>> ELSE <<>>)
    \o (IF query # NoQuery
        THEN <<[kind |-> "name_contains", text |-> query]>> ELSE <<>>)
    \o (IF folder_id = NoFolder /\ allowed_folders # {}
        THEN <<[kind |-> "any_parent", folders |-> allowed_folders]>> ELSE <<>>)
    \o <<[kind |-> "not_trashed"]>>

\* list_files: the outcome and the identifiers of the files returned
ListResult(folder_id, query, faults, outcome, files) ==
    [op |-> "list", folder_id |-> folder_id, query |-> query, faults |-> faults,
     outcome |-> outcome, files |-> files]

list_files(folder_id, query, faults) ==
    IF folder_id # NoFolder /\ folder_id \notin allowed_folders
    THEN ListResult(folder_id, query, faults, "ValueError", {})
    ELSE IF "list" \in faults
    THEN ListResult(folder_id, query, faults, "Error", {})
    ELSE ListResult(folder_id, query, faults, "ok",
                    DriveList(QueryParts(folder_id, query)))

(***************************************************************************)
(* The operations of the service, each as one step, and the environment.   *)
(***************************************************************************)
NoThreads == Empty

\* GET /api/download/<file_id>?cache=
Download(ids, caching, faultsets, traced) ==
    \E file_id \in ids, use_cache \in caching, faults \in faultsets :
        /\ download_file(file_id, use_cache, faults, traced)
        /\ UNCHANGED <<now, allowed_folders, parents, trashed, threads, SyncVars>>

\* the files requested under Spec
Requested == {"f1", "f2"}

DownloadFile ==
    Download(Requested, BOOLEAN, FaultsOf({"parents", "get", "get_media"}), FALSE)

\* GET /api/file/<file_id>
GetFileMetadata ==
    \E file_id \in Requested, faults \in FaultsOf({"parents", "get"}) :
        LET md == get_file_metadata(metadata_cache, file_id, faults, now)
        IN  /\ metadata_cache' = md.mcache
            /\ last' = [op |-> "metadata", file_id |-> file_id,
                        faults |-> faults,
                        outcome |-> md.outcome, calls |-> md.calls,
                        permitted |-> Permitted(file_id)]
            /\ UNCHANGED <<now, allowed_folders, parents, trashed, cache_dir,
                           cleanup, threads, SyncVars>>

\* POST /api/cache/clear
ClearCache ==
    /\ cache_dir' = Unlink(cache_dir, DOMAIN cache_dir)
    /\ metadata_cache' = Empty
    /\ last' = [op |-> "clear", fileCount |-> Cardinality(DOMAIN cache_dir),
                totalSize |-> TotalSize(cache_dir)]
    /\ UNCHANGED <<now, allowed_folders, parents, trashed, cleanup, threads, SyncVars>>

\* GET /api/list?folderId&query
ListFiles ==
    \E folder_id \in FolderIds \cup {NoFolder},
       query \in {NoQuery, <<"S">>, <<"5">>, <<"S", "5">>, <<"5", "S">>},
       faults \in {{}, {"list"}} :
        /\ last' = list_files(folder_id, query, faults)
        /\ UNCHANGED <<now, allowed_folders, parents, trashed, cache_dir,
                       metadata_cache, cleanup, threads, SyncVars>>

\* the permission check on its own
CheckPermission ==
    \E file_id \in FileIds, faults \in {{}, {"parents"}} :
        /\ last' = [op |-> "check", file_id |-> file_id, faults |-> faults,
                    accepts |-> _check_folder_permission(file_id, faults)]
        /\ UNCHANGED <<now, allowed_folders, parents, trashed, cache_dir,
                       metadata_cache, cleanup, threads, SyncVars>>

\* the metadata cache without the items that expire at time t: TTLCache never
\* shows an expired item again and drops it at the next store
Expire(mcache, t) ==
    [k \in {x \in DOMAIN mcache : t < mcache[x].expires} |-> mcache[k]]

NoOp == [op |-> "none"]

\* time passes
Tick ==
    /\ now < MaxClock
    /\ now' = now + 1
    /\ metadata_cache' = Expire(metadata_cache, now + 1)
    /\ last' = NoOp
    /\ UNCHANGED <<allowed_folders, parents, trashed, cache_dir, cleanup, threads, SyncVars>>

\* the remote store: a file is moved to another folder
DriveMove ==
    \E file_id \in Requested, folder \in FolderIds :
        /\ parents[file_id] # {folder}
        /\ parents' = [parents EXCEPT ![file_id] = {folder}]
        /\ last' = NoOp
        /\ UNCHANGED <<now, allowed_folders, trashed, cache_dir, metadata_cache,
                       cleanup, threads, SyncVars>>

(***************************************************************************)
(* Spec: the service from an empty cache directory.                        *)
(***************************************************************************)
Init ==
    /\ now = 0
    /\ allowed_folders \in {{}, {"A"}}
    /\ parents = [f \in FileIds |-> {"A"}]
    /\ trashed = [f \in FileIds |-> FALSE]
    /\ cache_dir = Empty
    /\ metadata_cache = Empty
    /\ last = NoOp
    /\ cleanup = NoCleanup
    /\ threads = NoThreads
    /\ NoSync

Next ==
    \/ DownloadFile
    \/ GetFileMetadata
    \/ ClearCache
    \/ Tick
    \/ DriveMove

Spec == Init /\ [][Next]_vars

(***************************************************************************)
(* Claims on download_file, checked under Spec.                            *)
(***************************************************************************)
IsDownload == last.op = "download"

\* C1 as stated: a download with use_cache of a file whose cache entry is
\* younger than the TTL returns cached=true and issues no remote call at all.
C1_FreshHitNoRemoteCall ==
    (IsDownload /\ last.use_cache /\ last.entry_before = "fresh")
        => (last.cached /\ last.calls = <<>>)

\* C1 amended: a download with use_cache of a file whose cache entry is
\* younger than the TTL transfers no bytes and leaves the cache as it was; it
\* starts with the permission lookup, and it returns cached=true whenever the
\* file is in an allowed folder and neither the permission lookup nor the
\* metadata fetch fails.
C1_FreshHitNoTransfer ==
    (IsDownload /\ last.use_cache /\ last.entry_before = "fresh")
        => /\ \A i \in DOMAIN last.calls : last.calls[i] # "get_media"
           /\ ~last.wrote /\ last.cleanups = 0 /\ last.unchanged
           /\ last.calls # <<>> /\ last.calls[1] = "parents"
           /\ (last.permitted /\ last.faults \cap {"parents", "get"} = {})
                 => (last.cached /\ last.outcome = "cached")

\* a cache hit on a fresh entry that still cost a remote call
C1_Witness ==
    /\ IsDownload /\ last.use_cache /\ last.entry_before = "fresh"
    /\ last.cached /\ last.permitted
    /\ last.calls = <<"parents">>

\* C2: for a permitted file, when the cache entry is absent or not younger
\* than the TTL, or use_cache is false, and no remote call fails, the download
\* fetches the bytes, writes the cache entry, runs one cleanup pass and returns
\* cached=false; and a hit is only ever served from a fresh entry.
C2_MissFetchesAndReturnsFresh ==
    /\ (IsDownload /\ last.permitted /\ last.faults = {}
        /\ (last.entry_before # "fresh" \/ ~last.use_cache))
          => /\ last.outcome = "fresh" /\ ~last.cached
             /\ last.wrote /\ last.cleanups = 1
             /\ last.calls[Len(last.calls)] = "get_media"
             /\ LET path == _get_cached_file_path(last.file_id, FileName(last.file_id))
                IN  path \in DOMAIN cache_dir /\ cache_dir[path].mtime = now
    /\ (IsDownload /\ last.cached)
          => (last.use_cache /\ last.entry_before = "fresh")

\* C7: a download whose permission check fails raises PermissionError after
\* the permission lookup alone, with no byte transfer and the cache unchanged;
\* and every cache entry was written while its file was in an allowed folder.
C7_DeniedBeforeTransfer ==
    /\ (IsDownload /\ (~last.permitted \/ "parents" \in last.faults))
          => /\ last.outcome = "PermissionError"
             /\ last.calls = <<"parents">>
             /\ ~last.wrote /\ last.cleanups = 0 /\ last.unchanged
    /\ (IsDownload /\ last.outcome = "PermissionError")
          => (~last.wrote /\ last.unchanged)
    /\ \A p \in DOMAIN cache_dir : cache_dir[p].checked

\* a download denied although the file's entry is still fresh in the cache
C7_Witness ==
    /\ IsDownload /\ ~last.permitted /\ last.outcome = "PermissionError"
    /\ last.entry_before = "fresh" /\ last.use_cache
    /\ cache_dir # Empty

(***************************************************************************)
(* SpecCleanup: one fresh download, so one cleanup pass, from any content  *)
(* of the cache directory (any sizes and ages, left by earlier runs of     *)
(* the service).                                                           *)
(***************************************************************************)
CacheEntries ==
    [size : 1..MaxFileSize, mtime : 0..MaxClock, complete : {TRUE}, checked : {TRUE}]

AnyCacheDir == UNION {[S -> CacheEntries] : S \in SUBSET CachePaths}

InitCleanup ==
    /\ now = MaxClock
    /\ allowed_folders = {}
    /\ parents = [f \in FileIds |-> {"A"}]
    /\ trashed = [f \in FileIds |-> FALSE]
    /\ cache_dir \in AnyCacheDir
    /\ metadata_cache = Empty
    /\ last = NoOp
    /\ cleanup = NoCleanup
    /\ threads = NoThreads
    /\ NoSync

TracedDownload ==
    /\ ~cleanup.ran
    /\ Download(FileIds, {FALSE}, {{}}, TRUE)

NextCleanup == TracedDownload

SpecCleanup == InitCleanup /\ [][NextCleanup]_vars

(***************************************************************************)
(* Claims on the cleanup pass, checked under SpecCleanup.  They are stated *)
(* on the directory before the pass (cleanup.before), the directory after  *)
(* it (cache_dir) and the time of the pass (cleanup.at).                   *)
(***************************************************************************)
Before == cleanup.before
After == cache_dir
Removed == (DOMAIN Before) \ (DOMAIN After)
\* the entries whose age exceeds the TTL when the pass runs
ExpiredBefore == {p \in DOMAIN Before : cleanup.at - Before[p].mtime > ttl_hours}
NonExpiredBefore == (DOMAIN Before) \ ExpiredBefore
\* the non-expired entries the pass removed
SizeEvicted == Removed \cap NonExpiredBefore
CandidatePaths == {cleanup.candidates[i].path : i \in DOMAIN cleanup.candidates}
PosOf(p) == CHOOSE i \in DOMAIN cleanup.candidates : cleanup.candidates[i].path = p

\* C3: after a cleanup pass the aggregate size of the entries left in the
\* cache is at most the configured maximum.
C3_SizeWithinCap ==
    cleanup.ran => TotalSize(After) <= max_size_bytes

\* a pass that had to remove expired entries and to evict by size, and that
\* left entries in the cache
C3_Witness ==
    /\ cleanup.ran /\ cleanup.expired # {} /\ cleanup.evicted # {}
    /\ After # Empty /\ TotalSize(Before) > max_size_bytes + MaxFileSize

\* C4: a non-expired entry is removed only while the aggregate size of the
\* entries still in the cache exceeds the cap: none is removed when the
\* non-expired entries fit, and each evicted entry was evicted at an aggregate
\* above the cap.
C4_EvictOnlyWhileOverCap ==
    cleanup.ran =>
        /\ SumSizes(Before, NonExpiredBefore) <= max_size_bytes => SizeEvicted = {}
        /\ \A p \in SizeEvicted :
              /\ p \in CandidatePaths
              /\ SumSizes(Before, (DOMAIN After) \cup
                            {q \in SizeEvicted : PosOf(q) >= PosOf(p)})
                     > max_size_bytes

\* a pass whose size eviction stopped exactly at the cap with entries left
C4_Witness ==
    /\ cleanup.ran /\ SizeEvicted # {}
    /\ Cardinality(DOMAIN After) >= 2
    /\ TotalSize(After) = max_size_bytes

\* C5: size eviction deletes in ascending order of last-write time: every
\* evicted non-expired entry is at most as young as every surviving entry,
\* and the evicted entries are the head of the list sorted by mtime.
C5_OldestEvictedFirst ==
    (cleanup.ran /\ SizeEvicted # {}) =>
        /\ \A p \in SizeEvicted, q \in DOMAIN After :
              Before[p].mtime <= Before[q].mtime
        /\ \A i, j \in DOMAIN cleanup.candidates :
              i < j => cleanup.candidates[i].mtime <= cleanup.candidates[j].mtime
        /\ \A p \in SizeEvicted, q \in CandidatePaths \ SizeEvicted :
              PosOf(p) < PosOf(q)

\* a pass that evicted two entries of different ages and kept a younger one
C5_Witness ==
    /\ cleanup.ran /\ Cardinality(SizeEvicted) = 2 /\ After # Empty
    /\ \E p, q \in SizeEvicted : Before[p].mtime < Before[q].mtime
    /\ \E p \in SizeEvicted, q \in DOMAIN After : Before[p].mtime < Before[q].mtime

\* C6: a cleanup pass removes every entry whose age exceeds the TTL, and its
\* size phase works on exactly the entries that survived the expiry phase: no
\* expired entry is unlinked or size-accounted twice.
C6_ExpiryThenSizeDisjoint ==
    cleanup.ran =>
        /\ ExpiredBefore \cap DOMAIN After = {}
        /\ cleanup.expired = ExpiredBefore
        /\ CandidatePaths = NonExpiredBefore
        /\ cleanup.expired \cap cleanup.evicted = {}
        /\ cleanup.total_size = TotalSize(After)
        /\ ~cleanup.error

\* a pass with two expired entries, then a size eviction among the others
C6_Witness ==
    /\ cleanup.ran /\ Cardinality(cleanup.expired) >= 1
    /\ cleanup.evicted # {} /\ cleanup.evicted \subseteq NonExpiredBefore
    /\ Cardinality(CandidatePaths) = 2

(***************************************************************************)
(* SpecGateway: the permission check and the listing, on any allow-list    *)
(* and any state of the remote store.                                      *)
(***************************************************************************)
InitGateway ==
    /\ now = 0
    /\ allowed_folders \in SUBSET FolderIds
    /\ parents \in [FileIds -> SUBSET FolderIds]
    /\ trashed \in [FileIds -> BOOLEAN]
    /\ cache_dir = Empty
    /\ metadata_cache = Empty
    /\ last = NoOp
    /\ cleanup = NoCleanup
    /\ threads = NoThreads
    /\ NoSync

NextGateway ==
    \/ CheckPermission
    \/ ListFiles

SpecGateway == InitGateway /\ [][NextGateway]_vars

\* C8: the permission check accepts a file exactly when the allow-list is
\* empty or one of the file's parent folders is in it; with an empty
\* allow-list it accepts every file.
C8_AcceptsIffAllowed ==
    last.op = "check" =>
        /\ last.accepts <=>
              (allowed_folders = {}
               \/ \E parent \in parents[last.file_id] : parent \in allowed_folders)
        /\ allowed_folders = {} => last.accepts

\* the files a listing should show: not trashed, in the folder asked for (if
\* any), with the query text in the name (if any)
Listable(folder_id, query) ==
    {f \in FileIds :
        /\ ~trashed[f]
        /\ folder_id # NoFolder => folder_id \in parents[f]
        /\ query # NoQuery => NameContains(NameText(f), query)}

\* C9: with a non-empty allow-list a listing never returns a file outside
\* the allowed folders; with an empty allow-list it returns every non-trashed
\* file that matches the folder and name filters.
C9_ListScopedToAllowed ==
    (last.op = "list" /\ last.faults = {}) =>
        /\ allowed_folders # {} =>
              \A f \in last.files : parents[f] \cap allowed_folders # {}
        /\ allowed_folders = {} =>
              /\ last.outcome = "ok"
              /\ last.files = Listable(last.folder_id, last.query)

(***************************************************************************)
(* SpecConc: two requests run download_file concurrently (the server       *)
(* handles each request on its own thread), interleaved at the file-system *)
(* and Drive calls.  The cache directory holds what earlier requests left. *)
(***************************************************************************)
Threads == {"t1", "t2"}

Idle ==
    [pc |-> "idle", file_id |-> "", use_cache |-> FALSE, path |-> <<>>,
     size |-> 0, outcome |-> "", cached |-> FALSE, complete |-> FALSE,
     read_ok |-> FALSE]

At(th, pc) == threads[th].pc = pc

Goto(th, pc) == threads' = [threads EXCEPT ![th].pc = pc]

ConcFrame ==
    UNCHANGED <<now, allowed_folders, parents, trashed, last, cleanup, SyncVars>>

\* lines 289-297: the permission check, the metadata, the cache path
Begin(th) ==
    /\ At(th, "idle")
    /\ \E file_id \in Requested, use_cache \in BOOLEAN :
        IF ~_check_folder_permission(file_id, {})
        THEN /\ threads' = [threads EXCEPT ![th] =
                    [Idle EXCEPT !.pc = "done", !.file_id = file_id,
                                 !.use_cache = use_cache,
                                 !.outcome = "PermissionError"]]
             /\ UNCHANGED metadata_cache
        ELSE \E md \in {get_file_metadata(metadata_cache, file_id, {}, now)} :
             /\ metadata_cache' = md.mcache
             /\ threads' = [threads EXCEPT ![th] =
                    [Idle EXCEPT !.pc = "check_cache", !.file_id = file_id,
                                 !.use_cache = use_cache,
                                 !.path = _get_cached_file_path(
                                              file_id, md.value.fileName)]]
    /\ UNCHANGED cache_dir
    /\ ConcFrame

\* line 299: use_cache and self._is_cache_valid(cached_file_path)
CheckCache(th) ==
    /\ At(th, "check_cache")
    /\ IF threads[th].use_cache /\ _is_cache_valid(cache_dir, threads[th].path, now)
       THEN Goto(th, "stat_hit")
       ELSE Goto(th, "fetch")
    /\ UNCHANGED <<cache_dir, metadata_cache>>
    /\ ConcFrame

\* lines 301-307: the descriptor of a hit, its size from stat()
StatHit(th) ==
    /\ At(th, "stat_hit")
    /\ threads' = [threads EXCEPT ![th] =
          IF threads[th].path \in DOMAIN cache_dir
          THEN [@ EXCEPT !.pc = "done", !.outcome = "cached", !.cached = TRUE,
                         !.size = cache_dir[threads[th].path].size,
                         !.complete = cache_dir[threads[th].path].complete]
          ELSE [@ EXCEPT !.pc = "done", !.outcome = "FileNotFoundError"]]
    /\ UNCHANGED <<cache_dir, metadata_cache>>
    /\ ConcFrame

\* lines 311-320: the bytes are downloaded into memory
Fetch(th) ==
    /\ At(th, "fetch")
    /\ \E size \in 1..MaxFileSize :
          threads' = [threads EXCEPT ![th].pc = "open", ![th].size = size]
    /\ UNCHANGED <<cache_dir, metadata_cache>>
    /\ ConcFrame

\* line 323: open(cached_file_path, 'wb') creates or truncates the file
OpenCacheFile(th) ==
    /\ At(th, "open")
    /\ cache_dir' = WriteFile(cache_dir, threads[th].path,
                              [size |-> 0, mtime |-> now, complete |-> FALSE,
                               checked |-> Permitted(threads[th].file_id)])
    /\ Goto(th, "write")
    /\ UNCHANGED metadata_cache
    /\ ConcFrame

\* line 324: f.write(fh.getvalue()) and the close; a file unlinked since the
\* open does not come back under its path
WriteCacheFile(th) ==
    /\ At(th, "write")
    /\ cache_dir' =
          IF threads[th].path \in DOMAIN cache_dir
          THEN [cache_dir EXCEPT ![threads[th].path] =
                   [@ EXCEPT !.size = threads[th].size, !.mtime = now,
                             !.complete = TRUE]]
          ELSE cache_dir
    /\ Goto(th, "cleanup")
    /\ UNCHANGED metadata_cache
    /\ ConcFrame

\* line 329: self._cleanup_cache()
RunCleanup(th) ==
    /\ At(th, "cleanup")
    /\ \E order \in GlobOrders(cache_dir) :
          cache_dir' = _cleanup_cache(cache_dir, order, now).dir
    /\ Goto(th, "stat_fresh")
    /\ UNCHANGED metadata_cache
    /\ ConcFrame

\* lines 331-337: the descriptor of a fresh download, its size from stat()
StatFresh(th) ==
    /\ At(th, "stat_fresh")
    /\ threads' = [threads EXCEPT ![th] =
          IF threads[th].path \in DOMAIN cache_dir
          THEN [@ EXCEPT !.pc = "done", !.outcome = "fresh",
                         !.size = cache_dir[threads[th].path].size,
                         !.complete = cache_dir[threads[th].path].complete]
          ELSE [@ EXCEPT !.pc = "done", !.outcome = "FileNotFoundError"]]
    /\ UNCHANGED <<cache_dir, metadata_cache>>
    /\ ConcFrame

\* lines 549-556 (sync_standard endpoint): the caller takes filePath from the
\* descriptor it was handed and the parser opens that path
ParseDocument(th) ==
    /\ At(th, "done")
    /\ threads[th].outcome \in {"cached", "fresh"}
    /\ threads' = [threads EXCEPT ![th].pc = "parsed",
                                  ![th].read_ok = threads[th].path \in DOMAIN cache_dir]
    /\ UNCHANGED <<cache_dir, metadata_cache>>
    /\ ConcFrame

InitConc ==
    /\ now = MaxClock
    /\ allowed_folders = {}
    /\ parents = [f \in FileIds |-> {"A"}]
    /\ trashed = [f \in FileIds |-> FALSE]
    /\ cache_dir \in {d \in AnyCacheDir :
          DOMAIN d \subseteq {_get_cached_file_path(f, FileName(f)) : f \in Requested}}
    /\ metadata_cache = Empty
    /\ last = NoOp
    /\ cleanup = NoCleanup
    /\ threads = [th \in Threads |-> Idle]
    /\ NoSync

NextConc ==
    \E th \in Threads :
        \/ Begin(th)
        \/ CheckCache(th)
        \/ StatHit(th)
        \/ Fetch(th)
        \/ OpenCacheFile(th)
        \/ WriteCacheFile(th)
        \/ RunCleanup(th)
        \/ StatFresh(th)
        \/ ParseDocument(th)

SpecConc == InitConc /\ [][NextConc]_vars

\* C10: no request is handed a cache hit (cached=true with a size) for a file
\* whose bytes have not all been written.
C10_NoPartialHit ==
    \A th \in Threads :
        (threads[th].pc = "done" /\ threads[th].cached) => threads[th].complete

\* C11: a file handed to a request as a cache hit is still there when the
\* request reads it: no cleanup pass of another request deletes it between
\* the hit and the read.
C11_HandedHitNotEvicted ==
    \A th \in Threads :
        (threads[th].pc = "parsed" /\ threads[th].cached) => threads[th].read_ok

(***************************************************************************)
(* The synchronisation of a parsed document to the relational store        *)
(* (src/docker/drive-resolver/sync_service.py).  Each call on the store    *)
(* (select, insert, update) is one step of a run, so that the runs of the  *)
(* scheduled job and of a manually triggered job interleave between them.  *)
(***************************************************************************)
\* a run of sync_standard makes at most MaxFaults store calls that raise
MaxFaults == 2
\* at most MaxRuns calls of sync_standard are started
MaxRuns == 2
\* a parsed document has at most MaxSections sections and MaxClauses clauses
MaxSections == 2
MaxClauses == 1

\* Python's None for a string, for an identifier, and a code that is not found
None == "None"
NoId == <<>>
NoCode == <<>>

\* the sequences over S of length at most n
SeqsUpTo(S, n) == UNION {[1..k -> S] : k \in 0..n}

\* the sections and the clauses the parser hands over
SectionPool ==
    {[number |-> "1", title |-> "Scope", parent |-> None],
     [number |-> "2", title |-> "", parent |-> "1"]}
ClausePool ==
    {[number |-> "2.1", section_number |-> "2", importance |-> "REQUIRED"],
     [number |-> "0.1", section_number |-> None, importance |-> "standard"]}

ParsedDocuments ==
    {[sections |-> ss, clauses |-> cs] :
        ss \in SeqsUpTo(SectionPool, MaxSections),
        cs \in SeqsUpTo(ClausePool, MaxClauses)}

\* the remote files that are synchronised: identifier and name, the name a
\* sequence of characters (an extension is one token)
DriveFiles ==
    {[id |-> "f1", name |-> <<"i", "_", "s", "5", "0", "0", ".docx">>],
     [id |-> "f2", name |-> <<"S", "5", "0", "0", "1", "2", ".pdf">>],
     [id |-> "f3", name |-> <<"S", "5", "0", "_", "v", "2", ".pdf">>]}

IsDigit(c) == c \in {"0", "1", "2", "3", "4", "5", "6", "7", "8", "9"}

\* CodeMatchAt with any character in the place of the S
code_match_any_letter(file_name, i) ==
    /\ i + 3 <= Len(file_name)
    /\ ~IsDigit(file_name[i])
    /\ \A k \in 1..3 : IsDigit(file_name[i + k])
\* re.search(r'S\d{3,4}', file_name, re.IGNORECASE) matches at position i
CodeMatchAt(file_name, i) ==
    /\ i + 3 <= Len(file_name)
    /\ file_name[i] \in {"S", "s"}
    /\ \A k \in 1..3 : IsDigit(file_name[i + k])

\* _extract_standard_code with a default code in place of None
extract_code_defaulted(file_name) ==
    LET starts == {i \in 1..Len(file_name) : CodeMatchAt(file_name, i)}
    IN  IF starts = {} THEN <<"S">>
        ELSE LET i == CHOOSE m \in starts : \A o \in starts : m <= o
             IN  <<"S">> \o SubSeq(file_name, i + 1, i + 3)

\* the leftmost match, greedy on the fourth digit, upper-cased
_extract_standard_code(file_name) ==
    LET starts == {i \in 1..Len(file_name) : CodeMatchAt(file_name, i)}
    IN  IF starts = {} THEN NoCode
        ELSE LET i == CHOOSE m \in starts : \A o \in starts : m <= o
                 n == IF i + 4 <= Len(file_name) /\ IsDigit(file_name[i + 4])
                      THEN 4 ELSE 3
             IN  <<"S">> \o SubSeq(file_name, i + 1, i + n)

\* file_name.replace('.pdf', '').replace('.docx', '').replace('_', ' ')
StripName(file_name) ==
    LET kept == SelectSeq(file_name, LAMBDA c : c \notin {".pdf", ".docx"})
    IN  [k \in 1..Len(kept) |-> IF kept[k] = "_" THEN " " ELSE kept[k]]

\* the title of the first section when it is not empty, else the file name
_extract_title(parsed_data, file_name) ==
    IF Len(parsed_data.sections) > 0 /\ parsed_data.sections[1].title # ""
    THEN <<parsed_data.sections[1].title>>
    ELSE StripName(file_name)

\* uuid4(): the n-th identifier
Uuid(n) == <<"uuid", n>>

\* f"std_{code.lower()}_{uuid4().hex[:8]}"
StandardId(code, n) == <<"std", code, n>>

\* section_map.get(key)
MapGet(map, key) == IF key \in DOMAIN map THEN map[key] ELSE NoId

\* MapPut that leaves the map as it is
map_put_dropped(map, key, id) == map

\* section_map[key] = id
MapPut(map, key, id) ==
    [k \in DOMAIN map \cup {key} |-> IF k = key THEN id ELSE map[k]]

\* .update(data).eq('id', id): the row of that id takes the new attributes
UpdateRow(table, id, data) ==
    {IF row.id = id THEN data ELSE row : row \in table}

ZeroStats ==
    [standards_created |-> 0, standards_updated |-> 0,
     sections_created |-> 0, sections_updated |-> 0,
     clauses_created |-> 0, clauses_updated |-> 0,
     errors |-> 0, error_messages |-> <<>>, status |-> None]

Runners == {"scheduled", "manual"}

IdleRun ==
    [pc |-> "idle", parsed_data |-> [sections |-> <<>>, clauses |-> <<>>],
     drive_file_id |-> "", drive_file_name |-> <<>>, sync_id |-> NoId,
     standard_code |-> NoCode, standard_id |-> NoId, found |-> NoId,
     i |-> 1, section_map |-> Empty, stats |-> ZeroStats,
     budget |-> 0, faults |-> 0, failed |-> {}, log |-> <<>>,
     before |-> EmptyStore]

Active == {r \in Runners : runs[r].pc \notin {"idle", "done"}}

SyncFrame == UNCHANGED ResolverVars

\* a store call of the run raises (at most run.budget of them) or returns
Outcomes(run) == IF run.faults < run.budget THEN {"ok", "raise"} ELSE {"ok"}

\* the position after the Standard, after section i and after clause i
AfterSections(run) ==
    IF Len(run.parsed_data.clauses) > 0
    THEN [run EXCEPT !.pc = "cl_select", !.i = 1]
    ELSE [run EXCEPT !.pc = "record", !.i = 1]

AfterStandard(run) ==
    IF Len(run.parsed_data.sections) > 0
    THEN [run EXCEPT !.pc = "sec_select", !.i = 1]
    ELSE AfterSections(run)

\* NextSection of a loop that ends after its first section
next_section_breaking(run) == AfterSections(run)
\* line 130: the next section, or the clauses after the last one
NextSection(run) ==
    IF run.i < Len(run.parsed_data.sections)
    THEN [run EXCEPT !.pc = "sec_select", !.i = run.i + 1]
    ELSE AfterSections(run)

NextClause(run) ==
    IF run.i < Len(run.parsed_data.clauses)
    THEN [run EXCEPT !.pc = "cl_select", !.i = run.i + 1]
    ELSE [run EXCEPT !.pc = "record", !.i = 1]

\* lines 188-191: the handler of the outer try
TopLevelFailure(run, message) ==
    [run EXCEPT !.pc = "record_failed",
                !.faults = IF message = "code" THEN @ ELSE @ + 1,
                !.stats = [@ EXCEPT !.status = "failed",
                                    !.error_messages = Append(@, message)]]

\* EntityFailure without the increment of stats['errors']
entity_failure_uncounted(run, kind) ==
    [run EXCEPT !.faults = @ + 1,
                !.failed = @ \cup {<<kind, run.i>>},
                !.stats = [@ EXCEPT !.error_messages = Append(@, kind)]]

\* lines 143-146 and 165-168: the handlers of the per-entity try
EntityFailure(run, kind) ==
    [run EXCEPT !.faults = @ + 1,
                !.failed = @ \cup {<<kind, run.i>>},
                !.stats = [@ EXCEPT !.errors = @ + 1,
                                    !.error_messages = Append(@, kind)]]

\* lines 84-106: the run id, the counters, the code from the file name.
\* The store is followed up to the first run in which one of its calls raises.
StartSync(r, files, budget) ==
    /\ runs[r].pc \in {"idle", "done"}
    /\ Len(finished) + Cardinality(Active) < MaxRuns
    /\ \A k \in DOMAIN finished : finished[k].faults = 0
    /\ \E file \in files :
        LET run == [IdleRun EXCEPT !.parsed_data = documents[file.id],
                                   !.budget = budget,
                                   !.drive_file_id = file.id,
                                   !.drive_file_name = file.name,
                                   !.sync_id = Uuid(uuids + 1),
                                   !.standard_code =
                                       _extract_standard_code(file.name),
                                   !.before = store]
        IN  runs' = [runs EXCEPT ![r] =
                IF run.standard_code = NoCode
                THEN TopLevelFailure(run, "code")
                ELSE [run EXCEPT !.pc = "std_select"]]
    /\ uuids' = uuids + 1
    /\ UNCHANGED <<store, finished, documents>>
    /\ SyncFrame

\* the run r with its locals replaced
SetRun(r, run) == runs' = [runs EXCEPT ![r] = run]

\* a write of a run: the table, insert or update, the id of the row, its
\* natural key, the number it refers to (parent, section) and the id written
\* for that reference
LogEntry(table, op, id, key, ref_key, ref) ==
    [table |-> table, op |-> op, id |-> id, key |-> key, ref_key |-> ref_key,
     ref |-> ref]

\* FoundIds with a lookup that never matches
found_nothing(rows) == {NoId}

\* existing.data[0]['id'] of a select: the id of a matching row, if any
FoundIds(rows) == IF rows = {} THEN {NoId} ELSE {row.id : row \in rows}

\* lines 235-238: select the Standard by its code
SelectStandard(r) ==
    /\ runs[r].pc = "std_select"
    /\ \E outcome \in Outcomes(runs[r]) :
        IF outcome = "raise"
        THEN SetRun(r, TopLevelFailure(runs[r], "standard"))
        ELSE \E found \in FoundIds({row \in store.Standard :
                                      row.code = runs[r].standard_code}) :
                SetRun(r, [runs[r] EXCEPT !.pc = "std_write", !.found = found])
    /\ UNCHANGED <<store, uuids, finished, documents>>
    /\ SyncFrame

\* lines 121-124: if standard_id: updated += 1, else: created += 1
CountStandard(stats, standard_id) ==
    IF standard_id # NoId
    THEN [stats EXCEPT !.standards_updated = @ + 1]
    ELSE [stats EXCEPT !.standards_created = @ + 1]

\* lines 240-257 and 121-124: update the row found or insert a new one, and
\* count it
WriteStandard(r) ==
    /\ runs[r].pc = "std_write"
    /\ LET run == runs[r]
           standard_id == IF run.found # NoId THEN run.found
                          ELSE StandardId(run.standard_code, uuids + 1)
           standard_data ==
               [id |-> standard_id, code |-> run.standard_code,
                title |-> _extract_title(run.parsed_data, run.drive_file_name),
                driveFileId |-> run.drive_file_id,
                driveFileName |-> run.drive_file_name]
       IN  \E outcome \in Outcomes(run) :
            IF outcome = "raise"
            THEN /\ SetRun(r, TopLevelFailure(run, "standard"))
                 /\ UNCHANGED <<store, uuids>>
            ELSE /\ store' = [store EXCEPT !.Standard =
                        IF run.found # NoId
                        THEN UpdateRow(@, standard_id, standard_data)
                        ELSE @ \cup {standard_data}]
                 /\ uuids' = IF run.found # NoId THEN uuids ELSE uuids + 1
                 /\ SetRun(r, AfterStandard(
                        [run EXCEPT
                           !.standard_id = standard_id,
                           !.stats = CountStandard(@, standard_id),
                           !.log = Append(@, LogEntry("Standard",
                                      IF run.found # NoId THEN "update" ELSE "insert",
                                      standard_id, run.standard_code, None, NoId))]))
    /\ UNCHANGED <<finished, documents>>
    /\ SyncFrame

\* lines 321-325: select the section by (standardId, sectionNumber)
SelectSection(r) ==
    /\ runs[r].pc = "sec_select"
    /\ LET run == runs[r]
           section == run.parsed_data.sections[run.i]
       IN  \E outcome \in Outcomes(run) :
            IF outcome = "raise"
            THEN SetRun(r, NextSection(EntityFailure(run, "section")))
            ELSE \E found \in FoundIds({row \in store.StandardSection :
                                          /\ row.standardId = run.standard_id
                                          /\ row.sectionNumber = section.number}) :
                    SetRun(r, [run EXCEPT !.pc = "sec_write", !.found = found])
    /\ UNCHANGED <<store, uuids, finished, documents>>
    /\ SyncFrame

\* lines 327-342 and 137-141: update or insert the section with the parent
\* section_map holds, enter it into section_map and count it
WriteSection(r) ==
    /\ runs[r].pc = "sec_write"
    /\ LET run == runs[r]
           section == run.parsed_data.sections[run.i]
           section_id == IF run.found # NoId THEN run.found ELSE Uuid(uuids + 1)
           section_data ==
               [id |-> section_id, standardId |-> run.standard_id,
                sectionNumber |-> section.number, title |-> section.title,
                parentSectionId |-> MapGet(run.section_map, section.parent)]
       IN  \E outcome \in Outcomes(run) :
            IF outcome = "raise"
            THEN /\ SetRun(r, NextSection(EntityFailure(run, "section")))
                 /\ UNCHANGED <<store, uuids>>
            ELSE /\ store' = [store EXCEPT !.StandardSection =
                        IF run.found # NoId
                        THEN UpdateRow(@, section_id, section_data)
                        ELSE @ \cup {section_data}]
                 /\ uuids' = IF run.found # NoId THEN uuids ELSE uuids + 1
                 /\ SetRun(r, NextSection(
                        [run EXCEPT
                           !.section_map = MapPut(@, section.number, section_id),
                           !.stats = [@ EXCEPT !.sections_created = @ + 1],
                           !.log = Append(@, LogEntry("StandardSection",
                                      IF run.found # NoId THEN "update" ELSE "insert",
                                      section_id, section.number, section.parent,
                                      section_data.parentSectionId))]))
    /\ UNCHANGED <<finished, documents>>
    /\ SyncFrame

\* lines 401-405: select the clause by (standardId, clauseNumber)
SelectClause(r) ==
    /\ runs[r].pc = "cl_select"
    /\ LET run == runs[r]
           clause == run.parsed_data.clauses[run.i]
       IN  \E outcome \in Outcomes(run) :
            IF outcome = "raise"
            THEN SetRun(r, NextClause(EntityFailure(run, "clause")))
            ELSE \E found \in FoundIds({row \in store.StandardClause :
                                          /\ row.standardId = run.standard_id
                                          /\ row.clauseNumber = clause.number}) :
                    SetRun(r, [run EXCEPT !.pc = "cl_write", !.found = found])
    /\ UNCHANGED <<store, uuids, finished, documents>>
    /\ SyncFrame

\* importance.upper()
Upper(word) == IF word = "standard" THEN "STANDARD" ELSE word

\* lines 407-422 and 155-163: update or insert the clause under the section
\* section_map holds for its section number, and count it
WriteClause(r) ==
    /\ runs[r].pc = "cl_write"
    /\ LET run == runs[r]
           clause == run.parsed_data.clauses[run.i]
           clause_id == IF run.found # NoId THEN run.found ELSE Uuid(uuids + 1)
           clause_data ==
               [id |-> clause_id, standardId |-> run.standard_id,
                sectionId |-> MapGet(run.section_map, clause.section_number),
                clauseNumber |-> clause.number,
                importance |-> Upper(clause.importance)]
       IN  \E outcome \in Outcomes(run) :
            IF outcome = "raise"
            THEN /\ SetRun(r, NextClause(EntityFailure(run, "clause")))
                 /\ UNCHANGED <<store, uuids>>
            ELSE /\ store' = [store EXCEPT !.StandardClause =
                        IF run.found # NoId
                        THEN UpdateRow(@, clause_id, clause_data)
                        ELSE @ \cup {clause_data}]
                 /\ uuids' = IF run.found # NoId THEN uuids ELSE uuids + 1
                 /\ SetRun(r, NextClause(
                        [run EXCEPT
                           !.stats = [@ EXCEPT !.clauses_created = @ + 1],
                           !.log = Append(@, LogEntry("StandardClause",
                                      IF run.found # NoId THEN "update" ELSE "insert",
                                      clause_id, clause.number,
                                      clause.section_number,
                                      clause_data.sectionId))]))
    /\ UNCHANGED <<finished, documents>>
    /\ SyncFrame

\* lines 470-484: the SyncHistory row of a run
HistoryData(run, status) ==
    [id |-> run.sync_id, syncType |-> "SINGLE_FILE", status |-> status,
     driveFileId |-> run.drive_file_id,
     standardsCreated |-> run.stats.standards_created,
     standardsUpdated |-> run.stats.standards_updated,
     clausesCreated |-> run.stats.clauses_created,
     clausesUpdated |-> run.stats.clauses_updated,
     errors |-> run.stats.errors]

\* _record_sync_history that keeps the latest row of a remote file only
record_sync_history_latest(r, status, returned) ==
    \E outcome \in Outcomes(runs[r]) :
        LET run == [runs[r] EXCEPT !.pc = "done",
                                   !.stats = [@ EXCEPT !.status = returned],
                                   !.faults = IF outcome = "raise" THEN @ + 1 ELSE @]
            written == IF outcome = "raise" THEN store
                       ELSE [store EXCEPT !.SyncHistory =
                                {row \in @ : row.driveFileId # runs[r].drive_file_id}
                                \cup {HistoryData(runs[r], status)}]
        IN  /\ store' = written
            /\ SetRun(r, run)
            /\ finished' = Append(finished,
                   [runner |-> r, sync_id |-> run.sync_id,
                    drive_file_name |-> run.drive_file_name,
                    parsed_data |-> run.parsed_data,
                    standard_code |-> run.standard_code,
                    standard_id |-> run.standard_id,
                    status |-> status, stats |-> run.stats,
                    faults |-> run.faults, failed |-> run.failed,
                    log |-> run.log,
                    before |-> run.before, after |-> written])
\* lines 486-492: the insert of the row; an exception is logged and dropped
_record_sync_history(r, status, returned) ==
    \E outcome \in Outcomes(runs[r]) :
        LET run == [runs[r] EXCEPT !.pc = "done",
                                   !.stats = [@ EXCEPT !.status = returned],
                                   !.faults = IF outcome = "raise" THEN @ + 1 ELSE @]
            written == IF outcome = "raise" THEN store
                       ELSE [store EXCEPT !.SyncHistory =
                                @ \cup {HistoryData(runs[r], status)}]
        IN  /\ store' = written
            /\ SetRun(r, run)
            /\ finished' = Append(finished,
                   [runner |-> r, sync_id |-> run.sync_id,
                    drive_file_name |-> run.drive_file_name,
                    parsed_data |-> run.parsed_data,
                    standard_code |-> run.standard_code,
                    standard_id |-> run.standard_id,
                    status |-> status, stats |-> run.stats,
                    faults |-> run.faults, failed |-> run.failed,
                    log |-> run.log,
                    before |-> run.before, after |-> written])

\* RecordHistory with the status COMPLETED whatever the error count
record_history_completed(r) ==
    /\ runs[r].pc = "record"
    /\ _record_sync_history(r, "COMPLETED", "success")
    /\ UNCHANGED <<uuids, documents>>
    /\ SyncFrame

\* lines 170-186: the status from the error count, the history, the result
RecordHistory(r) ==
    /\ runs[r].pc = "record"
    /\ _record_sync_history(r,
           IF runs[r].stats.errors = 0 THEN "COMPLETED" ELSE "PARTIAL", "success")
    /\ UNCHANGED <<uuids, documents>>
    /\ SyncFrame

\* lines 193-204: the history of a run that failed at the top level
RecordFailed(r) ==
    /\ runs[r].pc = "record_failed"
    /\ _record_sync_history(r, "FAILED", "failed")
    /\ UNCHANGED <<uuids, documents>>
    /\ SyncFrame

\* one caller: the calls of sync_standard follow one another
InitSync ==
    /\ now = 0
    /\ allowed_folders = {}
    /\ parents = [f \in FileIds |-> {"A"}]
    /\ trashed = [f \in FileIds |-> FALSE]
    /\ cache_dir = Empty
    /\ metadata_cache = Empty
    /\ last = NoOp
    /\ cleanup = NoCleanup
    /\ threads = NoThreads
    /\ store = EmptyStore
    /\ uuids = 0
    /\ runs = [r \in Runners |-> IdleRun]
    /\ finished = <<>>
    /\ documents \in {[f \in {file.id : file \in DriveFiles} |-> parsed_data] :
                        parsed_data \in ParsedDocuments}

NextSync ==
    \E r \in {"scheduled"} :
        \/ StartSync(r, DriveFiles, MaxFaults)
        \/ SelectStandard(r)
        \/ WriteStandard(r)
        \/ SelectSection(r)
        \/ WriteSection(r)
        \/ SelectClause(r)
        \/ WriteClause(r)
        \/ RecordHistory(r)
        \/ RecordFailed(r)

SpecSync == InitSync /\ [][NextSync]_vars

(***************************************************************************)
(* Claims on SpecSync                                                      *)
(***************************************************************************)
Returned == DOMAIN finished

\* the writes of a log on a table, and those of one kind
WritesOn(log, table) == {p \in DOMAIN log : log[p].table = table}
WritesOf(log, table, op) == {p \in WritesOn(log, table) : log[p].op = op}

\* the entities of one kind of a run whose upsert raised
FailedOf(run, kind) == {e \in run.failed : e[1] = kind}

\* a code can be derived from the file name
HasCode(file_name) == \E i \in 1..Len(file_name) : CodeMatchAt(file_name, i)

C14_NoCodeFailsBeforeWrites ==
    \A k \in Returned :
        ~HasCode(finished[k].drive_file_name)
        => /\ finished[k].status = "FAILED"
           /\ finished[k].stats.status = "failed"
           /\ finished[k].stats.error_messages = <<"code">>
           /\ finished[k].log = <<>>
           /\ finished[k].after.Standard = finished[k].before.Standard
           /\ finished[k].after.StandardSection = finished[k].before.StandardSection
           /\ finished[k].after.StandardClause = finished[k].before.StandardClause

C14_Witness ==
    \E k \in Returned :
        /\ ~HasCode(finished[k].drive_file_name)
        /\ finished[k].before.Standard # {}
        /\ finished[k].parsed_data.sections # <<>>

\* C15: when the upsert of a Section or Clause raises, the run goes on with
\* every remaining Section and Clause and persists them, its final status is
\* PARTIAL, and its errors count is the number of entities whose upsert failed.
C15_PartialFailureContinues ==
    \A k \in Returned :
        finished[k].standard_id # NoId
        => LET run == finished[k]
               sections == run.parsed_data.sections
               clauses == run.parsed_data.clauses
           IN  /\ run.stats.errors = Cardinality(run.failed)
               /\ (run.failed # {} => run.status = "PARTIAL")
               /\ Cardinality(WritesOn(run.log, "StandardSection"))
                     = Len(sections) - Cardinality(FailedOf(run, "section"))
               /\ Cardinality(WritesOn(run.log, "StandardClause"))
                     = Len(clauses) - Cardinality(FailedOf(run, "clause"))
               /\ \A i \in DOMAIN sections :
                     <<"section", i>> \notin run.failed
                     => \E row \in run.after.StandardSection :
                           /\ row.standardId = run.standard_id
                           /\ row.sectionNumber = sections[i].number
               /\ \A i \in DOMAIN clauses :
                     <<"clause", i>> \notin run.failed
                     => \E row \in run.after.StandardClause :
                           /\ row.standardId = run.standard_id
                           /\ row.clauseNumber = clauses[i].number

C15_Witness ==
    \E k \in Returned :
        /\ <<"section", 1>> \in finished[k].failed
        /\ Len(finished[k].parsed_data.sections) = 2
        /\ finished[k].parsed_data.sections[1] # finished[k].parsed_data.sections[2]
        /\ Len(finished[k].parsed_data.clauses) = 1
        /\ finished[k].status = "PARTIAL"
        /\ Len(finished[k].log) = 3

\* C16: the status recorded for a run is COMPLETED exactly when the Standard
\* was established and no Section or Clause upsert failed, PARTIAL exactly when
\* it was established and at least one failed, FAILED exactly when the Standard
\* could not be established.
C16_TerminalStatus ==
    \A k \in Returned :
        LET run == finished[k]
            established == run.standard_id # NoId
        IN  /\ run.status = "COMPLETED" <=> (established /\ run.failed = {})
            /\ run.status = "PARTIAL" <=> (established /\ run.failed # {})
            /\ run.status = "FAILED" <=> ~established
            /\ \A row \in store.SyncHistory :
                  row.id = run.sync_id => row.status = run.status

C16_Witness ==
    /\ Len(finished) = 2
    /\ finished[1].status = "COMPLETED"
    /\ finished[2].status = "PARTIAL"
    /\ \E row \in store.SyncHistory :
          row.id = finished[2].sync_id /\ row.status = "PARTIAL"

\* C17: every run of syncStandard, whatever its outcome, leaves exactly one
\* SyncHistory row with the id of the run.
C17_ExactlyOneHistoryRow ==
    \A k \in Returned :
        Cardinality({row \in store.SyncHistory : row.id = finished[k].sync_id}) = 1

\* C18: a run that inserts the Standard reports standards_created = 1 and
\* standards_updated = 0, a run that finds it by code and updates it reports
\* standards_updated = 1 and standards_created = 0.
C18_StandardCounters ==
    \A k \in Returned :
        LET run == finished[k]
        IN  /\ WritesOf(run.log, "Standard", "insert") # {}
               => run.stats.standards_created = 1 /\ run.stats.standards_updated = 0
            /\ WritesOf(run.log, "Standard", "update") # {}
               => run.stats.standards_updated = 1 /\ run.stats.standards_created = 0

\* C19: the Section and Clause counters of a run follow the upserts: created
\* counts the rows inserted and updated the rows found by natural key and
\* updated, so that a second sync of the same input reports nothing created.
C19_EntityCounters ==
    \A k \in Returned :
        LET run == finished[k]
        IN  /\ run.stats.sections_created
                  = Cardinality(WritesOf(run.log, "StandardSection", "insert"))
            /\ run.stats.sections_updated
                  = Cardinality(WritesOf(run.log, "StandardSection", "update"))
            /\ run.stats.clauses_created
                  = Cardinality(WritesOf(run.log, "StandardClause", "insert"))
            /\ run.stats.clauses_updated
                  = Cardinality(WritesOf(run.log, "StandardClause", "update"))

\* the order of the tables in a run
Rank(table) ==
    CASE table = "Standard" -> 1
      [] table = "StandardSection" -> 2
      [] OTHER -> 3

\* the id of the section of that number written last before position p of the
\* log, if there is one
ResolvedBefore(log, p, number) ==
    LET earlier == {q \in 1..(p - 1) : /\ log[q].table = "StandardSection"
                                       /\ log[q].key = number}
    IN  IF earlier = {} THEN NoId
        ELSE log[CHOOSE q \in earlier : \A o \in earlier : o <= q].id

\* C20: in a run the Standard is upserted before any Section, every Section
\* before any Clause; the parent of a Section is resolved against the sections
\* upserted earlier in the same run only, and a Clause whose section number is
\* not in the number-to-id map is written with no section.
C20_OrderAndResolution ==
    /\ \A r \in Runners :
          runs[r].pc \in {"sec_select", "sec_write", "cl_select", "cl_write"}
          => \E row \in store.Standard : row.id = runs[r].standard_id
    /\ \A r \in Runners :
          runs[r].pc \in {"cl_select", "cl_write"}
          => Cardinality(WritesOn(runs[r].log, "StandardSection"))
                + Cardinality(FailedOf(runs[r], "section"))
                = Len(runs[r].parsed_data.sections)
    /\ \A k \in Returned :
          LET log == finished[k].log
          IN  /\ \A p, q \in DOMAIN log :
                    p < q => Rank(log[p].table) <= Rank(log[q].table)
              /\ \A p \in DOMAIN log : log[p].table = "Standard" <=> p = 1
              /\ \A p \in DOMAIN log :
                    p > 1 => log[p].ref = ResolvedBefore(log, p, log[p].ref_key)

C20_Witness ==
    \E k \in Returned :
        LET run == finished[k]
        IN  /\ \E p \in WritesOn(run.log, "StandardSection") :
                  /\ run.log[p].ref = NoId
                  /\ \E row \in run.before.StandardSection :
                        /\ row.standardId = run.standard_id
                        /\ row.sectionNumber = run.log[p].ref_key
            /\ \E p \in WritesOn(run.log, "StandardClause") : run.log[p].ref # NoId

(***************************************************************************)
(* SpecSyncConc: the scheduled job and a manually triggered job            *)
(* (resolver.py, scheduled_sync_job and trigger_manual_sync) run at the    *)
(* same time, each in its own thread with its own SupabaseSyncService,     *)
(* and call sync_standard for the files they find.  No store call raises.  *)
(***************************************************************************)
NextSyncConc ==
    \E r \in Runners :
        \/ StartSync(r, DriveFiles, 0)
        \/ SelectStandard(r)
        \/ WriteStandard(r)
        \/ SelectSection(r)
        \/ WriteSection(r)
        \/ SelectClause(r)
        \/ WriteClause(r)
        \/ RecordHistory(r)
        \/ RecordFailed(r)

SpecSyncConc == InitSync /\ [][NextSyncConc]_vars

\* C13: in every reachable state of the store, also when the scheduled and a
\* manually triggered full sync overlap on the same file, there is at most one
\* Standard row per code, one Section row per (standardId, sectionNumber) and
\* one Clause row per (standardId, clauseNumber).
C13_NaturalKeysUnique ==
    /\ \A a, b \in store.Standard : a.code = b.code => a = b
    /\ \A a, b \in store.StandardSection :
          (a.standardId = b.standardId /\ a.sectionNumber = b.sectionNumber)
          => a = b
    /\ \A a, b \in store.StandardClause :
          (a.standardId = b.standardId /\ a.clauseNumber = b.clauseNumber)
          => a = b

(***************************************************************************)
(* parser.py, StandardParser.  A Python str is a sequence of one-character *)
(* strings; an Optional value is Absent (None) or Some(value).  The texts  *)
(* of the model hold no white space other than the blank.                  *)
(***************************************************************************)
\* a clause body is made of at most MaxWords words
MaxWords == 2

Absent == <<>>
Some(x) == <<x>>

UpperCase == <<"A", "B", "C", "D", "E", "F", "G", "H", "I", "J", "K", "L",
               "M", "N", "O", "P", "Q", "R", "S", "T", "U", "V", "W", "X",
                       "Y", "Z">>
LowerCase == <<"a", "b", "c", "d", "e", "f", "g", "h", "i", "j", "k", "l",
               "m", "n", "o", "p", "q", "r", "s", "t", "u", "v", "w", "x",
                       "y", "z">>

\* str.lower()
lower(s) ==
    [i \in 1..Len(s) |->
        IF \E k \in DOMAIN UpperCase : UpperCase[k] = s[i]
        THEN LowerCase[CHOOSE k \in DOMAIN UpperCase : UpperCase[k] = s[i]]
        ELSE s[i]]

IsSpace(c) == c = " "

\* str.strip() of a text that is returned as it is
strip_nothing(s) == s
\* str.strip()
strip(s) ==
    LET kept == {i \in 1..Len(s) : ~IsSpace(s[i])} IN
    IF kept = {} THEN <<>>
    ELSE SubSeq(s, CHOOSE i \in kept : \A j \in kept : i <= j,
                   CHOOSE i \in kept : \A j \in kept : j <= i)

\* str.rstrip('.')
rstrip(s) ==
    LET kept == {i \in 1..Len(s) : s[i] # "."} IN
    IF kept = {} THEN <<>>
    ELSE SubSeq(s, 1, CHOOSE i \in kept : \A j \in kept : j <= i)

\* s.find(word) + 1: the position of the first occurrence of word, 0 if none
find(s, word) ==
    LET hits == {i \in 1..(Len(s) - Len(word) + 1) :
                    SubSeq(s, i, i + Len(word) - 1) = word} IN
    IF hits = {} THEN 0 ELSE CHOOSE i \in hits : \A j \in hits : i <= j

\* word in s
contains(s, word) ==
    \E i \in 1..(Len(s) - Len(word) + 1) :
        SubSeq(s, i, i + Len(word) - 1) = word

\* s.split(sep, 1)
split(s, sep) ==
    IF find(s, sep) = 0 THEN <<s>>
    ELSE <<SubSeq(s, 1, find(s, sep) - 1),
           SubSeq(s, find(s, sep) + Len(sep), Len(s))>>

\* s[:n] that takes the whole text
prefix_whole(s, n) == s
\* s[:n]
prefix(s, n) == SubSeq(s, 1, IF n < Len(s) THEN n ELSE Len(s))

\* \d+ from position i: the position after the digits
RECURSIVE DigitsEnd(_, _)
DigitsEnd(s, i) ==
    IF i <= Len(s) /\ IsDigit(s[i]) THEN DigitsEnd(s, i + 1) ELSE i

\* (\.\d+)* from position i: the position after the groups
RECURSIVE NumberEnd(_, _)
NumberEnd(s, i) ==
    IF i + 1 <= Len(s) /\ s[i] = "." /\ IsDigit(s[i + 1])
    THEN NumberEnd(s, DigitsEnd(s, i + 1))
    ELSE i

\* self.clause_pattern.match(text): match.end(), 0 when there is no match
clause_pattern(text) ==
    LET dot == NumberEnd(text, DigitsEnd(text, 1))
        space == IF dot <= Len(text) /\ text[dot] = "." THEN dot + 1 ELSE dot
    IN  IF /\ DigitsEnd(text, 1) > 1
           /\ space <= Len(text)
           /\ IsSpace(text[space])
        THEN space
        ELSE 0

\* any_in that tries the first word only
any_in_first_word(words, content_lower) ==
    contains(content_lower, words[1])
\* any(word in content_lower for word in words)
any_in(words, content_lower) ==
    \E k \in DOMAIN words : contains(content_lower, words[k])

_infer_category(content) ==
    LET content_lower == lower(content) IN
    IF any_in(<<<<"s", "a", "f", "e", "t", "y">>, <<"h", "a", "z", "a", "r",
            "d">>, <<"p", "r", "o", "t", "e", "c", "t", "i", "o", "n">>,
                     <<"p", "p", "e">>>>,
              content_lower)
    THEN "Safety"
    ELSE IF any_in(<<<<"e", "q", "u", "i", "p", "m", "e", "n", "t">>, <<"d",
            "e", "h", "u", "m", "i", "d", "i", "f", "i", "e", "r">>, <<"a",
                    "i", "r", " ", "m", "o", "v", "e", "r">>>>,
                   content_lower)
    THEN "Equipment"
    ELSE IF any_in(<<<<"d", "o", "c", "u", "m", "e", "n", "t">>, <<"r", "e",
            "c", "o", "r", "d">>, <<"r", "e", "p", "o", "r", "t">>, <<"l",
                    "o", "g">>>>,
                   content_lower)
    THEN "Documentation"
    ELSE IF any_in(<<<<"p", "r", "o", "c", "e", "d", "u", "r", "e">>, <<"p",
            "r", "o", "c", "e", "s", "s">>, <<"m", "e", "t", "h", "o", "d">>,
                    <<"s", "t", "e", "p">>>>,
                   content_lower)
    THEN "Process"
    ELSE IF any_in(<<<<"m", "o", "i", "s", "t", "u", "r", "e">>, <<"h", "u",
            "m", "i", "d", "i", "t", "y">>, <<"d", "r", "y", "i", "n", "g">>,
                    <<"w", "a", "t", "e", "r">>>>,
                   content_lower)
    THEN "Moisture Control"
    ELSE IF any_in(<<<<"i", "n", "s", "p", "e", "c", "t">>, <<"a", "s", "s",
            "e", "s", "s">>, <<"e", "v", "a", "l", "u", "a", "t">>, <<"t",
                    "e", "s", "t">>>>,
                   content_lower)
    THEN "Inspection"
    ELSE "General"

\* the checks of _infer_importance with the hazard words first
infer_importance_hazard_first(content) ==
    LET content_lower == lower(content) IN
    IF any_in(<<<<"c", "r", "i", "t", "i", "c", "a", "l">>, <<"d", "a", "n",
            "g", "e", "r">>, <<"w", "a", "r", "n", "i", "n", "g">>, <<"h",
                    "a", "z", "a", "r", "d">>>>,
              content_lower)
    THEN "CRITICAL"
    ELSE IF any_in(<<<<"m", "u", "s", "t">>, <<"s", "h", "a", "l", "l">>,
            <<"r", "e", "q", "u", "i", "r", "e", "d">>, <<"m", "a", "n", "d",
                    "a", "t", "o", "r", "y">>>>,
                   content_lower)
    THEN "REQUIRED"
    ELSE IF any_in(<<<<"s", "h", "o", "u", "l", "d">>, <<"r", "e", "c", "o",
            "m", "m", "e", "n", "d">>, <<"s", "u", "g", "g", "e", "s",
                    "t">>>>, content_lower)
    THEN "RECOMMENDED"
    ELSE IF any_in(<<<<"m", "a", "y">>, <<"o", "p", "t", "i", "o", "n", "a",
            "l">>, <<"c", "o", "n", "s", "i", "d", "e", "r">>>>, content_lower)
    THEN "OPTIONAL"
    ELSE "STANDARD"
_infer_importance(content) ==
    LET content_lower == lower(content) IN
    IF any_in(<<<<"m", "u", "s", "t">>, <<"s", "h", "a", "l", "l">>, <<"r",
            "e", "q", "u", "i", "r", "e", "d">>, <<"m", "a", "n", "d", "a",
                    "t", "o", "r", "y">>>>,
              content_lower)
    THEN "REQUIRED"
    ELSE IF any_in(<<<<"c", "r", "i", "t", "i", "c", "a", "l">>, <<"d", "a",
            "n", "g", "e", "r">>, <<"w", "a", "r", "n", "i", "n", "g">>,
                                    <<"h", "a", "z", "a", "r", "d">>>>,
                   content_lower)
    THEN "CRITICAL"
    ELSE IF any_in(<<<<"s", "h", "o", "u", "l", "d">>, <<"r", "e", "c", "o",
            "m", "m", "e", "n", "d">>, <<"s", "u", "g", "g", "e", "s",
                    "t">>>>, content_lower)
    THEN "RECOMMENDED"
    ELSE IF any_in(<<<<"m", "a", "y">>, <<"o", "p", "t", "i", "o", "n", "a",
            "l">>, <<"c", "o", "n", "s", "i", "d", "e", "r">>>>, content_lower)
    THEN "OPTIONAL"
    ELSE "STANDARD"

\* lines 236-244: the clause dict
ClauseDict(number_part, title, content, section_number, page_num) ==
    [number |-> number_part, title |-> title, content |-> content,
     section_number |-> section_number, page |-> page_num,
     category |-> _infer_category(content),
     importance |-> _infer_importance(content)]

\* _parse_clause: Absent (None) when the pattern does not match, else the
\* clause; the title is carved off at the first colon, else at the first
\* period
_parse_clause(text, section_number, page_num) ==
    IF clause_pattern(text) = 0 THEN Absent
    ELSE
        LET number_part ==
                rstrip(strip(SubSeq(text, 1, clause_pattern(text))))
            content ==
                strip(SubSeq(text, clause_pattern(text) + 1, Len(text)))
        IN  IF contains(prefix(content, 100), <<":">>)
            THEN Some(ClauseDict(number_part,
                                 Some(strip(split(content, <<":">>)[1])),
                                 strip(split(content, <<":">>)[2]),
                                 section_number, page_num))
            ELSE IF /\ contains(prefix(content, 50), <<".">>)
                    /\ Len(split(content, <<".">>)[1]) < 50
            THEN Some(ClauseDict(number_part,
                                 Some(strip(split(content, <<".">>)[1])),
                                 strip(split(content, <<".">>)[2]),
                                 section_number, page_num))
            ELSE Some(ClauseDict(number_part, Absent, content,
                                 section_number, page_num))

(***************************************************************************)
(* The texts the parser is applied to.                                     *)
(***************************************************************************)
RECURSIVE JoinWords(_)
JoinWords(words) ==
    IF Len(words) = 0 THEN <<>>
    ELSE IF Len(words) = 1 THEN words[1]
    ELSE words[1] \o <<" ">> \o JoinWords(Tail(words))

\* one word of every keyword set that the two inferences share or tell
\* apart, one word in capitals and one word of no set
Vocabulary ==
    {<<"m", "u", "s", "t">>, <<"h", "a", "z", "a", "r", "d">>, <<"S", "h",
            "o", "u", "l", "d">>, <<"m", "a", "y">>, <<"E", "Q", "U", "I",
                    "P", "M", "E", "N", "T">>, <<"r", "e", "c", "o", "r",
                            "d">>,
     <<"s", "t", "e", "p">>, <<"w", "a", "t", "e", "r">>, <<"l", "a", "t",
             "e", "s", "t">>, <<"i", "d", "l", "e">>}

HazardControl == <<"3", ".", "2", ".", "1", " ", "H", "a", "z", "a", "r", "d",
                   " ", "C", "o", "n", "t", "r", "o", "l", ":", " ", "W", "e",
                           "a", "r", " ", "P", "P", "E", " ", "a", "t", " ",
                                   "a", "l", "l", " ", "t", "i", "m", "e",
                                           "s", ".">>
HazardZones == <<"W", "o", "r", "k", "e", "r", "s", " ", "m", "u", "s", "t",
                 " ", "a", "v", "o", "i", "d", " ", "h", "a", "z", "a", "r",
                         "d", " ", "z", "o", "n", "e", "s", ".">>

Bodies ==
    {JoinWords(words) : words \in SeqsUpTo(Vocabulary, MaxWords)}
    \cup {HazardZones, <<"W", "e", "a", "r", " ", "P", "P", "E", " ", "a",
                         "t", " ", "a", "l", "l", " ", "t", "i", "m", "e",
                                 "s", ".">>}

Fill(n) == [i \in 1..n |-> "x"]

\* number, filler, separator, filler, separator, tail: the separators fall
\* on both sides of the 50th and of the 100th character of the remainder
ClauseLines ==
    {number \o <<" ">> \o Fill(a) \o s1 \o <<" ">> \o Fill(b) \o s2
        \o <<" ", "s", "h", "a", "l", "l", " ", "l", "o", "g">> :
        number \in {<<"3", ".", "2", ".", "1">>, <<"3", ".", "2", ".", "1",
                ".">>, <<"7">>, <<"A", ".", "1">>},
        a \in {0, 2, 49, 50, 99, 100},
        s1 \in {<<":">>, <<".">>},
        b \in {0, 2, 100},
        s2 \in {<<":">>, <<".">>, <<>>}}
    \cup {HazardControl, <<"1", ".", "1", " ">> \o HazardZones}

ParserFrame ==
    UNCHANGED <<now, allowed_folders, parents, trashed, cache_dir,
                metadata_cache, cleanup, threads, SyncVars>>

\* a call of a function of the parser that has not returned
Call(fn, arg) == [op |-> "call", fn |-> fn, arg |-> arg]
Calls(fn) == last.op = "call" /\ last.fn = fn

\* StandardParser()._parse_clause(text, section_number)
ParseClause ==
    /\ Calls("_parse_clause")
    /\ last' = [op |-> "_parse_clause", text |-> last.arg,
                result |-> _parse_clause(last.arg, Some(<<"3">>), Absent)]
    /\ ParserFrame

\* StandardParser()._infer_importance(content)
InferImportance ==
    /\ Calls("_infer_importance")
    /\ last' = [op |-> "_infer_importance", content |-> last.arg,
                result |-> _infer_importance(last.arg)]
    /\ ParserFrame

\* StandardParser()._infer_category(content)
InferCategory ==
    /\ Calls("_infer_category")
    /\ last' = [op |-> "_infer_category", content |-> last.arg,
                result |-> _infer_category(last.arg)]
    /\ ParserFrame

(***************************************************************************)
(* parser.py, the documents.  A file has a format and pages of paragraphs, *)
(* each with the name of its style and its text.  python-docx sees the     *)
(* paragraphs of a .docx file, pdfplumber the text lines of every page of  *)
(* a .pdf file, open() the lines of a text file; each of them raises on a  *)
(* file of another format.  A function returns a value or raises.  Of a    *)
(* parsed document the type, the sections and the clauses are followed.    *)
(***************************************************************************)
\* a page has at most MaxParagraphs paragraphs
MaxParagraphs == 2

Return(value) == [raised |-> FALSE, value |-> value]
Raise == [raised |-> TRUE]

_empty_structure ==
    [type |-> "unknown", full_text |-> <<>>, sections |-> <<>>,
     clauses |-> <<>>, metadata |-> Empty]

\* re.match(r'^(\d+(\.\d+)*)', text): group 1, '' when there is no match
_extract_number(text) ==
    IF DigitsEnd(text, 1) = 1 THEN <<>>
    ELSE SubSeq(text, 1, NumberEnd(text, DigitsEnd(text, 1)) - 1)

\* re.sub(r'^[\d\.\s]+', '', text).strip()
_clean_title(text) ==
    LET kept == {i \in 1..Len(text) :
                    ~(IsDigit(text[i]) \/ text[i] = "." \/ IsSpace(text[i]))}
    IN  IF kept = {} THEN <<>>
        ELSE strip(SubSeq(text, CHOOSE i \in kept : \A j \in kept : i <= j,
                          Len(text)))

\* clause.get('section_number', 'general'): the default is for a dict
\* without the key
section_key(clause) ==
    IF "section_number" \in DOMAIN clause
    THEN clause.section_number
    ELSE Some(<<"g", "e", "n", "e", "r", "a", "l">>)

\* lines 253-258: the clauses of every section key, in their order
clause_by_section(clauses) ==
    [key \in {section_key(clauses[k]) : k \in DOMAIN clauses} |->
        SelectSeq(clauses, LAMBDA clause : section_key(clause) = key)]

\* lines 261-263: section['clause_count'] = len(...get(section_num, []))
WithClauseCount(section, groups) ==
    [field \in DOMAIN section \cup {"clause_count"} |->
        IF field # "clause_count" THEN section[field]
        ELSE IF Some(section.number) \in DOMAIN groups
        THEN Len(groups[Some(section.number)])
        ELSE 0]

_organize_hierarchy(sections, clauses) ==
    [sections |-> [k \in DOMAIN sections |->
                      WithClauseCount(sections[k],
                                      clause_by_section(clauses))],
     clauses |-> clauses,
     clause_by_section |-> clause_by_section(clauses)]

\* str.startswith(word)
startswith(s, word) ==
    Len(word) <= Len(s) /\ SubSeq(s, 1, Len(word)) = word

\* str.replace(old, '')
RECURSIVE replace(_, _)
replace(s, old) ==
    IF find(s, old) = 0 THEN s
    ELSE SubSeq(s, 1, find(s, old) - 1)
         \o replace(SubSeq(s, find(s, old) + Len(old), Len(s)), old)

\* int(s) returns: s is digits between blanks (no sign in the model)
IsInt(s) ==
    strip(s) # <<>> /\ \A i \in DOMAIN strip(s) : IsDigit(strip(s)[i])

\* int(s)
RECURSIVE int(_)
int(s) ==
    IF strip(s) = <<>> THEN 0
    ELSE 10 * int(SubSeq(strip(s), 1, Len(strip(s)) - 1))
         + (CHOOSE d \in 0..9 :
               <<"0", "1", "2", "3", "4", "5", "6", "7", "8",
                 "9">>[d + 1] = strip(s)[Len(strip(s))])

\* the paragraphs of all pages, doc.paragraphs
RECURSIVE Paragraphs(_)
Paragraphs(pages) ==
    IF pages = <<>> THEN <<>> ELSE Head(pages) \o Paragraphs(Tail(pages))

\* lines 113-136, one paragraph: loop holds the sections, the clauses and
\* current_section so far, and whether the loop has raised
DocxParagraph(loop, para) ==
    IF loop.raised \/ strip(para.text) = <<>> THEN loop
    ELSE IF startswith(para.style, <<"H", "e", "a", "d", "i", "n", "g">>)
    THEN IF /\ para.style # <<"H", "e", "a", "d", "i", "n", "g">>
            /\ ~IsInt(replace(para.style, <<"H", "e", "a", "d", "i", "n", "g",
                    " ">>))
         THEN [loop EXCEPT !.raised = TRUE]
         ELSE [loop EXCEPT
                  !.sections =
                      Append(@, [number |-> _extract_number(strip(para.text)),
                                 title |-> _clean_title(strip(para.text)),
                                 level |->
                                     IF para.style = <<"H", "e", "a", "d",
                                             "i", "n", "g">> THEN 1
                                     ELSE int(replace(para.style,
                                                      <<"H", "e", "a", "d",
                                                              "i", "n", "g",
                                                                      " ">>)),
                                 content |-> strip(para.text)]),
                  !.current_section =
                      Some(_extract_number(strip(para.text)))]
    ELSE IF clause_pattern(strip(para.text)) # 0
    THEN [loop EXCEPT
             !.clauses = @ \o _parse_clause(strip(para.text),
                                            loop.current_section, Absent)]
    ELSE loop

RECURSIVE DocxLoop(_, _)
DocxLoop(paragraphs, loop) ==
    IF paragraphs = <<>> THEN loop
    ELSE DocxLoop(Tail(paragraphs), DocxParagraph(loop, Head(paragraphs)))

NewLoop ==
    [sections |-> <<>>, clauses |-> <<>>, current_section |-> Absent,
     raised |-> FALSE]

\* the dict a parse_* function returns
Parsed(type, loop) ==
    [type |-> type,
     sections |-> _organize_hierarchy(loop.sections, loop.clauses).sections,
     clauses |-> _organize_hierarchy(loop.sections, loop.clauses).clauses]

\* parse_docx: the empty structure without python-docx, for a file that
\* Document() does not open and for a loop that raises
parse_docx(file, installed) ==
    IF "docx" \notin installed \/ file.format # "docx"
    THEN Return(_empty_structure)
    ELSE IF DocxLoop(Paragraphs(file.pages), NewLoop).raised
    THEN Return(_empty_structure)
    ELSE Return(Parsed("docx", DocxLoop(Paragraphs(file.pages), NewLoop)))

\* self.section_pattern.match(line): group 2, Absent when there is no match
section_pattern(line) ==
    LET words == {word \in {<<"c", "h", "a", "p", "t", "e", "r">>, <<"s", "e",
            "c", "t", "i", "o", "n">>, <<"p", "a", "r", "t">>} :
                     /\ startswith(lower(line), word)
                     /\ Len(word) < Len(line)
                     /\ IsSpace(line[Len(word) + 1])}
        digits(word) ==
            CHOOSE i \in (Len(word) + 2)..(Len(line) + 1) :
                /\ i > Len(line) \/ ~IsSpace(line[i])
                /\ \A j \in (Len(word) + 2)..(i - 1) : IsSpace(line[j])
    IN  IF \E word \in words : DigitsEnd(line, digits(word)) > digits(word)
        THEN Some(SubSeq(line, digits(CHOOSE word \in words : TRUE),
                         DigitsEnd(line, digits(CHOOSE word \in words : TRUE))
                         - 1))
        ELSE Absent

\* lines 184-207, one line of a page
TextLine(loop, line, page_num) ==
    IF strip(line) = <<>> THEN loop
    ELSE IF section_pattern(strip(line)) # Absent
    THEN [loop EXCEPT
             !.sections = Append(@,
                     [number |-> section_pattern(strip(line))[1],
                                     title |-> strip(line), level |-> 1,
                                     content |-> strip(line),
                                     page |-> page_num]),
             !.current_section = section_pattern(strip(line))]
    ELSE IF clause_pattern(strip(line)) # 0
    THEN [loop EXCEPT
             !.clauses = @ \o _parse_clause(strip(line),
                                            loop.current_section, page_num)]
    ELSE loop

RECURSIVE TextLoop(_, _, _)
TextLoop(lines, loop, page_num) ==
    IF lines = <<>> THEN loop
    ELSE TextLoop(Tail(lines), TextLine(loop, Head(lines).text, page_num),
                  page_num)

\* _extract_structure_from_text(text, page_num): the sections and the
\* clauses of the lines of one text, current_section starting at None
_extract_structure_from_text(lines, page_num) ==
    TextLoop(lines, NewLoop, page_num)

\* lines 72-81: the pages from page_num on, added to what loop holds
RECURSIVE PdfPages(_, _, _)
PdfPages(pages, page_num, loop) ==
    IF page_num > Len(pages) THEN loop
    ELSE IF pages[page_num] = <<>>
    THEN PdfPages(pages, page_num + 1, loop)
    ELSE PdfPages(pages, page_num + 1,
             [loop EXCEPT
                 !.sections = @ \o _extract_structure_from_text(
                                       pages[page_num],
                                               Some(page_num)).sections,
                 !.clauses = @ \o _extract_structure_from_text(
                                      pages[page_num],
                                              Some(page_num)).clauses])

\* parse_pdf: the empty structure without pdfplumber and for a file that
\* pdfplumber.open() does not open
parse_pdf(file, installed) ==
    IF "pdfplumber" \notin installed \/ file.format # "pdf"
    THEN Return(_empty_structure)
    ELSE Return(Parsed("pdf", PdfPages(file.pages, 1, NewLoop)))

\* parse_text: the empty structure for a file that does not decode
parse_text(file) ==
    IF file.format # "text" THEN Return(_empty_structure)
    ELSE Return(Parsed("text", _extract_structure_from_text(
                                   Paragraphs(file.pages), Absent)))

\* lines 46-54: 'pdf' in mime_type raises TypeError for None
ParserFor(file, mime_type, installed) ==
    IF mime_type = Absent THEN Raise
    ELSE IF contains(mime_type[1], <<"p", "d", "f">>) THEN parse_pdf(file,
                                     installed)
    ELSE IF \/ contains(mime_type[1], <<"d", "o", "c", "u", "m", "e", "n",
                                        "t">>)
            \/ contains(mime_type[1], <<"d", "o", "c", "x">>)
    THEN parse_docx(file, installed)
    ELSE IF \/ contains(mime_type[1], <<"t", "e", "x", "t">>)
            \/ contains(mime_type[1], <<"p", "l", "a", "i", "n">>)
    THEN parse_text(file)
    ELSE Return(_empty_structure)

\* parse_document without its except clause
parse_document_unguarded(file, mime_type, installed) ==
    ParserFor(file, mime_type, installed)
parse_document(file, mime_type, installed) ==
    IF ParserFor(file, mime_type, installed).raised
    THEN Return(_empty_structure)
    ELSE ParserFor(file, mime_type, installed)

(***************************************************************************)
(* The files the parser is applied to.                                     *)
(***************************************************************************)
\* numbered and unnumbered headings, a heading of a style whose name does
\* not end in a number, clauses, a line heading and a blank paragraph
ParagraphPool ==
    {[style |-> <<"H", "e", "a", "d", "i", "n", "g", " ", "1">>,
      text |-> <<"1", " ", "S", "c", "o", "p", "e">>],
     [style |-> <<"H", "e", "a", "d", "i", "n", "g">>,
      text |-> <<"I", "n", "t", "r", "o">>],
     [style |-> <<"H", "e", "a", "d", "i", "n", "g", " ", "A", "p", "p", "e",
                  "n", "d", "i", "x">>,
      text |-> <<"A", " ", "N", "o", "t", "e", "s">>],
     [style |-> <<"N", "o", "r", "m", "a", "l">>,
      text |-> <<"1", ".", "1", " ", "U", "s", "e", ":", " ", "m", "u", "s",
                 "t", " ", "l", "o", "g">>],
     [style |-> <<"N", "o", "r", "m", "a", "l">>,
      text |-> <<"2", ".", "1", " ", "P", "P", "E">>],
     [style |-> <<"N", "o", "r", "m", "a", "l">>,
      text |-> <<"S", "e", "c", "t", "i", "o", "n", " ", "2", " ", "T", "o",
                 "o", "l", "s">>],
     [style |-> <<"N", "o", "r", "m", "a", "l">>,
      text |-> <<" ", " ">>]}

Contents ==
    {<<page>> : page \in SeqsUpTo(ParagraphPool, MaxParagraphs)}
    \cup {<<first, second>> : first, second \in SeqsUpTo(ParagraphPool, 1)}

Files ==
    {[format |-> format, pages |-> pages] :
        format \in {"pdf", "docx", "text"}, pages \in Contents}

MimeTypes ==
    {Absent, Some(<<"a", "p", "p", "l", "i", "c", "a", "t", "i", "o", "n",
                    "/", "p", "d", "f">>), Some(<<"t", "e", "x", "t", "/",
                            "p", "l", "a", "i", "n">>),
     Some(<<"i", "m", "a", "g", "e", "/", "p", "n", "g">>),
     Some(<<"a", "p", "p", "l", "i", "c", "a", "t", "i", "o", "n", "/", "v",
            "n", "d", ".", "o", "p", "e", "n", "x", "m", "l", "f", "o", "r",
                    "m", "a", "t", "s", "-", "o", "f", "f", "i", "c", "e",
                            "d", "o", "c", "u", "m", "e", "n", "t", ".", "w",
                                    "o", "r", "d", "p", "r", "o", "c", "e",
                                            "s", "s", "i", "n", "g", "m", "l",
                                                    ".", "d", "o", "c", "u",
                                                            "m", "e", "n",
                                                                    "t">>)}

Libraries == {"pdfplumber", "docx"}

\* the sections and clauses that parse_docx has when it calls
\* _organize_hierarchy
Scanned ==
    {[sections |-> DocxLoop(Paragraphs(pages), NewLoop).sections,
      clauses |-> DocxLoop(Paragraphs(pages), NewLoop).clauses] :
        pages \in {pages \in Contents :
                      ~DocxLoop(Paragraphs(pages), NewLoop).raised}}

\* StandardParser()._organize_hierarchy(sections, clauses)
OrganizeHierarchy ==
    /\ Calls("_organize_hierarchy")
    /\ last' = [op |-> "_organize_hierarchy", sections |-> last.arg.sections,
                clauses |-> last.arg.clauses,
                result |-> _organize_hierarchy(last.arg.sections,
                                               last.arg.clauses)]
    /\ ParserFrame

\* StandardParser().parse_docx(file_path)
ParseDocx ==
    /\ Calls("parse_docx")
    /\ last' = [op |-> "parse_docx", file |-> last.arg,
                result |-> parse_docx(last.arg, Libraries)]
    /\ ParserFrame

\* StandardParser().parse_document(file_path, mime_type)
ParseDocumentFile ==
    /\ Calls("parse_document")
    /\ last' = [op |-> "parse_document", file |-> last.arg.file,
                mime_type |-> last.arg.mime_type,
                installed |-> last.arg.installed,
                result |-> parse_document(last.arg.file, last.arg.mime_type,
                                          last.arg.installed)]
    /\ ParserFrame

(***************************************************************************)
(* resolver.py, POST /api/sync/all: sync_all_standards lists the files,    *)
(* and downloads, parses and syncs one after the other.  The request is    *)
(* the thread "sync_all"; the sync_standard call it makes for a file is    *)
(* the run of the runner "manual", with the parsed data documents holds    *)
(* for the file (parse_document never raises).  No store call raises.      *)
(***************************************************************************)
Batch == threads["sync_all"]
SetBatch(batch) == threads' = [t \in {"sync_all"} |-> batch]
InBatch(pc) == threads # NoThreads /\ Batch.pc = pc

\* the files of a listing in an order in which Drive may return them
Orders(files) ==
    {order \in [1..Cardinality(files) -> files] :
        \A i, j \in DOMAIN order : order[i] = order[j] => i = j}

\* lines 623-633 and 637-643 with a failure that ends the loop
append_result_stopping(batch, status) ==
    [batch EXCEPT
        !.sync_results =
            Append(@, [fileId |-> batch.all_files[batch.k],
                    status |-> status]),
        !.total_success = IF status = "success" THEN @ + 1 ELSE @,
        !.total_failed = IF status = "success" THEN @ ELSE @ + 1,
        !.k = IF status = "success" THEN @ + 1 ELSE Len(batch.all_files) + 1,
        !.pc = "file"]
\* lines 623-633 and 637-643: the result entry of the file, the counters,
\* and on to the next file
AppendResult(batch, status) ==
    [batch EXCEPT
        !.sync_results =
            Append(@, [fileId |-> batch.all_files[batch.k],
                    status |-> status]),
        !.total_success = IF status = "success" THEN @ + 1 ELSE @,
        !.total_failed = IF status = "success" THEN @ ELSE @ + 1,
        !.k = @ + 1,
        !.pc = "file"]

\* lines 594-602 and 657-662: the listing, which may raise
SyncAllList ==
    /\ threads = NoThreads
    /\ \E faults \in {{}, {"list"}} :
          /\ last' = list_files(NoFolder, NoQuery, faults)
          /\ IF last'.outcome # "ok"
             THEN SetBatch([pc |-> "done",
                            response |-> [success |-> FALSE, code |-> 500]])
             ELSE \E all_files \in Orders(last'.files) :
                     SetBatch([pc |-> "file", all_files |-> all_files,
                               k |-> 1, sync_results |-> <<>>,
                               total_success |-> 0, total_failed |-> 0,
                               raised |-> {}, runs_before |-> 0,
                               response |-> [code |-> 0]])
    /\ UNCHANGED <<now, allowed_folders, parents, trashed, cache_dir,
                   metadata_cache, cleanup, SyncVars>>

\* lines 604-614 and 635-643: the download of the next file; when it raises
\* the file is failed
SyncAllDownload ==
    /\ InBatch("file")
    /\ Batch.k <= Len(Batch.all_files)
    /\ \E faults \in FaultsOf({"parents", "get_media"}) :
          /\ download_file(Batch.all_files[Batch.k], TRUE, faults, FALSE)
          /\ IF last'.outcome \in {"cached", "fresh"}
             THEN SetBatch([Batch EXCEPT !.pc = "sync",
                                         !.runs_before = Len(finished)])
             ELSE SetBatch(AppendResult(
                      [Batch EXCEPT !.raised = @ \cup {Batch.k}], "failed"))
    /\ UNCHANGED <<now, allowed_folders, parents, trashed, SyncVars>>

\* lines 616-621: sync_parsed_document calls sync_standard
SyncAllSync ==
    /\ InBatch("sync")
    /\ Len(finished) = Batch.runs_before
    /\ StartSync("manual",
                 {file \in DriveFiles : file.id = Batch.all_files[Batch.k]}, 0)

\* lines 623-633: the status sync_standard returned
SyncAllCollect ==
    /\ InBatch("sync")
    /\ Len(finished) = Batch.runs_before + 1
    /\ SetBatch(AppendResult(Batch, finished[Len(finished)].stats.status))
    /\ UNCHANGED <<now, allowed_folders, parents, trashed, cache_dir,
                   metadata_cache, last, cleanup, SyncVars>>

\* lines 645-655: the response
SyncAllRespond ==
    /\ InBatch("file")
    /\ Batch.k > Len(Batch.all_files)
    /\ SetBatch([Batch EXCEPT
           !.pc = "done",
           !.response =
               [success |-> TRUE, code |-> 200,
                summary |-> [totalFiles |-> Len(Batch.all_files),
                             successCount |-> Batch.total_success,
                             failedCount |-> Batch.total_failed],
                results |-> Batch.sync_results]])
    /\ UNCHANGED <<now, allowed_folders, parents, trashed, cache_dir,
                   metadata_cache, last, cleanup, SyncVars>>

\* the files are in folder A or B, of which A is allowed; a listing has at
\* most MaxRuns files; every file parses to one section and one clause
InitSyncAll ==
    /\ now = 0
    /\ allowed_folders = {"A"}
    /\ parents \in [FileIds -> {{"A"}, {"B"}}]
    /\ Cardinality({f \in FileIds : parents[f] = {"A"}}) <= MaxRuns
    /\ trashed = [f \in FileIds |-> FALSE]
    /\ cache_dir = Empty
    /\ metadata_cache = Empty
    /\ last = NoOp
    /\ cleanup = NoCleanup
    /\ threads = NoThreads
    /\ store = EmptyStore
    /\ uuids = 0
    /\ runs = [r \in Runners |-> IdleRun]
    /\ finished = <<>>
    /\ documents \in {[f \in FileIds |-> parsed_data] :
                        parsed_data \in {d \in ParsedDocuments :
                                            /\ Len(d.sections) = 1
                                            /\ Len(d.clauses) = 1}}

NextSyncAll ==
    \/ SyncAllList
    \/ SyncAllDownload
    \/ SyncAllSync
    \/ SyncAllCollect
    \/ SyncAllRespond
    \/ \E r \in {"manual"} :
          \/ SelectStandard(r)
          \/ WriteStandard(r)
          \/ SelectSection(r)
          \/ WriteSection(r)
          \/ SelectClause(r)
          \/ WriteClause(r)
          \/ RecordHistory(r)
          \/ RecordFailed(r)

SpecSyncAll == InitSyncAll /\ [][NextSyncAll]_vars

\* the files that fail outright: the download raised or sync_standard
\* returned 'failed'
FailedFiles ==
    Batch.raised
    \cup {k \in DOMAIN Batch.all_files :
             \E n \in DOMAIN finished :
                /\ finished[n].status = "FAILED"
                /\ \E file \in DriveFiles :
                      /\ file.id = Batch.all_files[k]
                      /\ file.name = finished[n].drive_file_name}

SyncAllCounts ==
    (InBatch("done") /\ Batch.response.success) =>
        /\ Len(Batch.response.results) = Len(Batch.all_files)
        /\ \A k \in DOMAIN Batch.all_files :
              Batch.response.results[k].fileId = Batch.all_files[k]
        /\ Batch.response.summary.totalFiles = Len(Batch.all_files)
        /\ Batch.response.summary.failedCount = Cardinality(FailedFiles)
        /\ Batch.response.summary.successCount =
              Len(Batch.all_files) - Cardinality(FailedFiles)

\* the steps a sync_standard call has left at most
RunSteps(run) ==
    LET sections == Len(run.parsed_data.sections)
        clauses == Len(run.parsed_data.clauses)
    IN  CASE run.pc = "std_select" -> 2 * sections + 2 * clauses + 3
          [] run.pc = "std_write" -> 2 * sections + 2 * clauses + 2
          [] run.pc = "sec_select" ->
                2 * (sections - run.i) + 2 * clauses + 3
          [] run.pc = "sec_write" ->
                2 * (sections - run.i) + 2 * clauses + 2
          [] run.pc = "cl_select" -> 2 * (clauses - run.i) + 3
          [] run.pc = "cl_write" -> 2 * (clauses - run.i) + 2
          [] run.pc \in {"record", "record_failed"} -> 1
          [] OTHER -> 0

\* the steps the request has left at most: for every file the download,
\* the start of the sync, its steps and the result entry, then the response
Remaining ==
    LET most == 2 * MaxSections + 2 * MaxClauses + 3
        file == most + 3
    IN  IF threads = NoThreads THEN MaxRuns * file + 2
        ELSE IF Batch.pc = "done" THEN 0
        ELSE IF Batch.pc = "file"
        THEN (Len(Batch.all_files) - Batch.k + 1) * file + 1
        ELSE (Len(Batch.all_files) - Batch.k) * file + 1
             + (IF Len(finished) > Batch.runs_before THEN 1
                ELSE IF runs["manual"].pc \in {"idle", "done"}
                THEN most + 2
                ELSE RunSteps(runs["manual"]) + 1)

\* C21: the full sync terminates (a step can be taken until the response is
\* there, and every step lowers the number of steps that are left); when the
\* listing returned N files the response has N result entries, one for each
\* file, totalFiles is N, failedCount is the number K of files whose download
\* raised or whose sync returned 'failed', and successCount is N - K: a file
\* that fails does not keep the files after it from being processed.
C21_SyncAllCounts ==
    /\ []SyncAllCounts
    /\ [](InBatch("done") \/ ENABLED NextSyncAll)
    /\ [][Remaining' < Remaining]_vars

\* the first of two files failed by an exception, the second succeeded
C21_Witness ==
    /\ InBatch("done")
    /\ Batch.response.success
    /\ Len(Batch.all_files) = 2
    /\ Batch.raised = {1}
    /\ Batch.response.results[2].status = "success"
    /\ Batch.response.summary.failedCount = 1

\* C22: SyncHistory is append-only: every row of SyncHistory is there,
\* with the same fields, after every step of the sync engine.
C22_HistoryAppendOnly ==
    [][\A row \in store.SyncHistory : row \in store'.SyncHistory]_vars

\* two runs of the same remote file ended differently and both rows are
\* there
C22_Witness ==
    \E first, second \in store.SyncHistory :
        /\ first.id # second.id
        /\ first.driveFileId = second.driveFileId
        /\ first.status # second.status

\* a Drive call that the operation issued raised: the identifier is unknown
\* to the remote store, or the network or the backend failed
DriveCallFailed ==
    \E i \in DOMAIN last.calls : last.calls[i] \in last.faults

\* C30: a download or a metadata request whose Drive call fails (unknown
\* identifier, network or backend failure) fails with the error of that call
\* and not with PermissionError; PermissionError is raised only when the
\* parents of the file were fetched, the allow-list is not empty and none of
\* the parents is in it.
C30_FailureKindsDistinct ==
    last.op \in {"download", "metadata"} =>
        /\ DriveCallFailed => last.outcome = "Error"
        /\ last.outcome = "PermissionError" =>
              /\ "parents" \notin last.faults
              /\ ~last.permitted

\* C31: a metadata request returns metadata only for a file that is in an
\* allowed folder (or with an empty allow-list) when the request is made,
\* and raises PermissionError for any other file, whatever the metadata
\* cache holds.
C31_MetadataPermissionChecked ==
    last.op = "metadata" =>
        /\ last.outcome = "ok" => last.permitted
        /\ ~last.permitted => last.outcome = "PermissionError"

(***************************************************************************)
(* SpecSections: the calls of sync_standard follow one another, on parsed  *)
(* inputs whose sections may repeat a number and name any number as their  *)
(* parent.                                                                 *)
(***************************************************************************)
SectionInputs ==
    SectionPool \cup {[number |-> "1", title |-> "Scope", parent |-> "1"]}

InitSections ==
    /\ now = 0
    /\ allowed_folders = {}
    /\ parents = [f \in FileIds |-> {"A"}]
    /\ trashed = [f \in FileIds |-> FALSE]
    /\ cache_dir = Empty
    /\ metadata_cache = Empty
    /\ last = NoOp
    /\ cleanup = NoCleanup
    /\ threads = NoThreads
    /\ store = EmptyStore
    /\ uuids = 0
    /\ runs = [r \in Runners |-> IdleRun]
    /\ finished = <<>>
    /\ documents \in {[f \in {file.id : file \in DriveFiles} |-> parsed_data] :
                        parsed_data \in
                            {[sections |-> ss, clauses |-> cs] :
                                ss \in SeqsUpTo(SectionInputs, MaxSections),
                                cs \in SeqsUpTo(ClausePool, MaxClauses)}}

SpecSections == InitSections /\ [][NextSync]_vars

\* the ids of the sections that are reached from the sections `ids` by at
\* most n parent references
RECURSIVE AncestorIds(_, _)
AncestorIds(ids, n) ==
    IF n = 0 THEN {}
    ELSE LET up == {row.parentSectionId :
                       row \in {s \in store.StandardSection : s.id \in ids}}
                   \ {NoId}
         IN  up \cup AncestorIds(up, n - 1)

MaxNameLen == 5

FileNames ==
    SeqsUpTo({"S", "s", "R", "5", "_"}, MaxNameLen)
    \cup {<<"R", "5", "2", "0", "_", "s", "5", "0", "0", "1", "2", ".pdf">>,
          <<"I", "I", "C", "R", "C", "_", "S", "5", "2", "0", "_", "S", "5",
            "0", "0", ".pdf">>,
          <<"a", "s", "3", "6", "6", "6", ".docx">>}

\* lines 103-106 and 516-525: the code of the file name; without a code
\* sync_standard raises 'Could not extract standard code'
ExtractStandardCode ==
    /\ Calls("_extract_standard_code")
    /\ last' = [op |-> "_extract_standard_code", file_name |-> last.arg,
                result |-> _extract_standard_code(last.arg),
                raises |-> _extract_standard_code(last.arg) = NoCode]
    /\ ParserFrame

InitCode ==
    /\ now = 0
    /\ allowed_folders = {}
    /\ parents = [f \in FileIds |-> {"A"}]
    /\ trashed = [f \in FileIds |-> FALSE]
    /\ cache_dir = Empty
    /\ metadata_cache = Empty
    /\ last \in {Call("_extract_standard_code", name) : name \in FileNames}
    /\ cleanup = NoCleanup
    /\ threads = NoThreads
    /\ NoSync

SpecCode == InitCode /\ [][ExtractStandardCode]_vars

Letters ==
    {UpperCase[k] : k \in DOMAIN UpperCase}
    \cup {LowerCase[k] : k \in DOMAIN LowerCase}

\* one of the characters `letters`, then three digits, at position i
ShapeAt(name, i, letters) ==
    /\ i + 3 <= Len(name)
    /\ name[i] \in letters
    /\ \A k \in 1..3 : IsDigit(name[i + k])

\* the first occurrence of the shape in a name that has one: the character,
\* then three digits, and the fourth digit if there is one
FirstShape(name, letters) ==
    LET i == CHOOSE m \in 1..Len(name) :
                 /\ ShapeAt(name, m, letters)
                 /\ \A o \in 1..(m - 1) : ~ShapeAt(name, o, letters)
    IN  SubSeq(name, i,
               IF i + 4 <= Len(name) /\ IsDigit(name[i + 4])
               THEN i + 4 ELSE i + 3)

Extracted == last.op = "_extract_standard_code"

\* C33 as stated: a file name in which a letter, whichever it is, is followed
\* by three digits never fails with 'could not extract standard code', and
\* the code is the first occurrence of a letter followed by 3 to 4 digits.
C33_CodeFromAnyLetter ==
    (Extracted /\ \E i \in 1..Len(last.file_name) :
                     ShapeAt(last.file_name, i, Letters))
        => /\ ~last.raises
           /\ lower(last.result) =
                 lower(FirstShape(last.file_name, Letters))

\* C33 amended: the code is the first occurrence in the file name of the
\* letter S, in either case, followed by 3 to 4 digits, in upper case; a
\* file name with such an occurrence never fails with 'could not extract
\* standard code', and a file name without one fails with it, also when
\* another letter is followed by 3 to 4 digits.
C33_CodeFromLetterS ==
    Extracted =>
        IF \E i \in 1..Len(last.file_name) :
              ShapeAt(last.file_name, i, {"S", "s"})
        THEN /\ ~last.raises
             /\ last.result =
                   <<"S">> \o Tail(FirstShape(last.file_name, {"S", "s"}))
        ELSE last.raises /\ last.result = NoCode

\* a name in which R520 comes before s50012: the code is S5001
C33_Witness ==
    /\ Extracted
    /\ ShapeAt(last.file_name, 1, {"R"})
    /\ ShapeAt(last.file_name, 6, {"s"})
    /\ last.result = <<"S", "5", "0", "0", "1">>
    /\ ~last.raises

\* the byte transfer of the download was started and failed
TransferFailed ==
    /\ IsDownload
    /\ "get_media" \in last.faults
    /\ last.calls[Len(last.calls)] = "get_media"

\* C34: a download whose byte transfer fails raises, and leaves the cache
\* directory as it was: no entry is created or overwritten, a stale entry of
\* the file keeps its size and last-write time, and no cleanup pass runs.
C34_FailedTransferLeavesCache ==
    /\ [](TransferFailed =>
            /\ last.outcome = "Error"
            /\ ~last.wrote /\ last.cleanups = 0 /\ last.unchanged)
    /\ [][TransferFailed' => (cache_dir' = cache_dir /\ cleanup' = cleanup)]_vars

\* the transfer failed for a file that has a stale entry, which is still
\* there next to the entry of another file
C34_Witness ==
    /\ TransferFailed
    /\ last.entry_before = "stale"
    /\ _get_cached_file_path(last.file_id, FileName(last.file_id))
          \in DOMAIN cache_dir
    /\ Cardinality(DOMAIN cache_dir) = 2

\* C35: a download that fetched the bytes and wrote the cache entry returns
\* cached=false with the entry still in the cache: its cleanup pass does not
\* evict the file that is returned, whatever the size of the file.
C35_WrittenEntrySurvives ==
    (IsDownload /\ last.wrote) =>
        /\ last.outcome = "fresh" /\ ~last.cached
        /\ _get_cached_file_path(last.file_id, FileName(last.file_id))
              \in DOMAIN cache_dir

\* C36: in a run that established the Standard every section and every
\* clause of the parsed input is counted once, as created, as updated or as
\* an error, and there is one error message for each error.
C36_CountersAddUp ==
    \A k \in Returned :
        finished[k].standard_id # NoId
        => LET run == finished[k] IN
           /\ run.stats.sections_created + run.stats.sections_updated
                 + run.stats.clauses_created + run.stats.clauses_updated
                 + run.stats.errors
                 = Len(run.parsed_data.sections) + Len(run.parsed_data.clauses)
           /\ Len(run.stats.error_messages) = run.stats.errors

\* a run of two sections and a clause in which the upsert of the second
\* section failed
C36_Witness ==
    \E k \in Returned :
        /\ finished[k].standard_id # NoId
        /\ Len(finished[k].parsed_data.sections) = 2
        /\ Len(finished[k].parsed_data.clauses) = 1
        /\ finished[k].failed = {<<"section", 2>>}
        /\ finished[k].stats.error_messages = <<"section">>
        /\ finished[k].stats.sections_created = 1
        /\ finished[k].stats.clauses_created = 1

\* C37: the status a run returns agrees with the status it records: it
\* returns 'failed' exactly when it records FAILED and 'success' exactly when
\* it records COMPLETED, so that a run recorded as PARTIAL is not returned as
\* a success.
C37_ReturnedAgreesWithRecorded ==
    \A k \in Returned :
        /\ finished[k].stats.status = "failed" <=> finished[k].status = "FAILED"
        /\ finished[k].stats.status = "success"
              <=> finished[k].status = "COMPLETED"

(***************************************************************************)
(* SpecBackends: the same syncStandard calls made on a service of each     *)
(* backend (sync_service.py, _initialize_client: the REST client when it   *)
(* is configured, else the direct SQL connection).  A table holds the      *)
(* logical rows: the natural key and the attributes, without identifiers   *)
(* and timestamps; a parent or a section is named by its number.  No call  *)
(* to the database fails.                                                  *)
(***************************************************************************)
Backends == {"rest", "sql"}

\* metadata.get('publication_year'): the parser's r'(20\d{2})' or None
PublicationYears == {None, "2021"}

\* a publicationDate column that was never written
NullDate == <<>>

\* lines 225-229: f"{publication_year}-01-01T00:00:00.000Z"
PublicationDate(publication_year) ==
    <<publication_year, "-01-01T00:00:00.000Z">>

EmptyTables == [Standard |-> {}, StandardSection |-> {}, StandardClause |-> {}]

\* the row with the columns of `data` set to the values of `data`
SetColumns(row, data) ==
    [c \in DOMAIN row |-> IF c \in DOMAIN data THEN data[c] ELSE row[c]]

\* select by the natural key, then update the row found or insert one
UpsertRow(table, key, inserted, updated) ==
    LET Found(row) == \A c \in DOMAIN key : row[c] = key[c]
    IN  IF \E row \in table : Found(row)
        THEN {IF Found(row) THEN SetColumns(row, updated) ELSE row :
                  row \in table}
        ELSE table \cup {inserted}

\* lines 206-302: the columns each backend writes.  The REST client sends
\* standard_data, with publicationDate when there is a year, on insert and
\* on update; the SQL INSERT has no publicationDate column, and the SQL
\* UPDATE sets neither status nor publicationDate
StandardColumns(backend, found, publication_year) ==
    IF backend = "rest"
    THEN {"code", "title", "driveFileName", "status"}
         \cup (IF publication_year # None THEN {"publicationDate"} ELSE {})
    ELSE IF found THEN {"title", "driveFileName"}
         ELSE {"code", "title", "driveFileName", "status"}

_upsert_standard(backend, table, code, title, file_name, publication_year) ==
    LET standard_data ==
            [code |-> code, title |-> title,
             driveFileName |-> file_name, status |-> "ACTIVE",
             publicationDate |-> PublicationDate(publication_year)]
        Written(found) ==
            [c \in StandardColumns(backend, found, publication_year) |->
                standard_data[c]]
    IN  UpsertRow(table, [code |-> code],
                  SetColumns([standard_data EXCEPT
                                 !.publicationDate = NullDate],
                             Written(FALSE)),
                  Written(TRUE))

\* lines 304-381: both backends write standardId, sectionNumber, title and
\* parentSectionId (content left out)
_upsert_section(backend, table, code, section, section_map) ==
    LET section_data ==
            [standard |-> code, sectionNumber |-> section.number,
             title |-> section.title,
             parent |-> IF section.parent \in section_map
                        THEN section.parent ELSE None]
    IN  UpsertRow(table,
                  [standard |-> code, sectionNumber |-> section.number],
                  section_data, section_data)

\* lines 383-463: clause_data carries importance.upper(); the REST client
\* sends clause_data, the SQL statements take the importance parameter
_upsert_clause(backend, table, code, clause, section_map) ==
    LET clause_data ==
            [standard |-> code, clauseNumber |-> clause.number,
             section |-> IF clause.section_number \in section_map
                         THEN clause.section_number ELSE None,
             importance |-> Upper(clause.importance)]
        written ==
            IF backend = "rest" THEN clause_data
            ELSE [clause_data EXCEPT !.importance = clause.importance]
    IN  UpsertRow(table,
                  [standard |-> code, clauseNumber |-> clause.number],
                  written, written)

\* lines 126-146: the sections from the i-th on, and the numbers mapped
RECURSIVE SyncSections(_, _, _, _, _, _)
SyncSections(backend, table, code, sections, i, section_map) ==
    IF i > Len(sections) THEN [table |-> table, section_map |-> section_map]
    ELSE SyncSections(backend,
             _upsert_section(backend, table, code, sections[i], section_map),
             code, sections, i + 1, section_map \cup {sections[i].number})

\* lines 148-168: the clauses from the i-th on
RECURSIVE SyncClauses(_, _, _, _, _, _)
SyncClauses(backend, table, code, clauses, i, section_map) ==
    IF i > Len(clauses) THEN table
    ELSE SyncClauses(backend,
             _upsert_clause(backend, table, code, clauses[i], section_map),
             code, clauses, i + 1, section_map)

\* lines 70-204: the tables after sync_standard; without a code nothing of
\* the Standard, its sections and its clauses is written
sync_standard(backend, tables, call) ==
    LET code == _extract_standard_code(call.drive_file_name)
        sections == SyncSections(backend, tables.StandardSection, code,
                                 call.parsed_data.sections, 1, {})
    IN  IF code = NoCode THEN tables
        ELSE [Standard |->
                  _upsert_standard(backend, tables.Standard, code,
                      _extract_title(call.parsed_data, call.drive_file_name),
                      call.drive_file_name, call.publication_year),
              StandardSection |-> sections.table,
              StandardClause |->
                  SyncClauses(backend, tables.StandardClause, code,
                              call.parsed_data.clauses, 1,
                              sections.section_map)]

SyncCalls ==
    {[drive_file_name |-> file.name, parsed_data |-> parsed_data,
      publication_year |-> year] :
        file \in DriveFiles, parsed_data \in ParsedDocuments,
        year \in PublicationYears}

\* the service of one backend takes its next call: the call the other
\* service took at that position, or a new one when it is ahead
SyncStandardOn(backend) ==
    /\ \E call \in SyncCalls :
        /\ IF runs[backend] < Len(finished)
           THEN call = finished[runs[backend] + 1]
           ELSE Len(finished) < MaxRuns
        /\ finished' = IF runs[backend] < Len(finished) THEN finished
                       ELSE Append(finished, call)
        /\ store' = [store EXCEPT
                        ![backend] = sync_standard(backend, @, call)]
    /\ runs' = [runs EXCEPT ![backend] = @ + 1]
    /\ UNCHANGED <<uuids, documents>>
    /\ SyncFrame

InitBackends ==
    /\ now = 0
    /\ allowed_folders = {}
    /\ parents = [f \in FileIds |-> {"A"}]
    /\ trashed = [f \in FileIds |-> FALSE]
    /\ cache_dir = Empty
    /\ metadata_cache = Empty
    /\ last = NoOp
    /\ cleanup = NoCleanup
    /\ threads = NoThreads
    /\ store = [backend \in Backends |-> EmptyTables]
    /\ uuids = 0
    /\ runs = [backend \in Backends |-> 0]
    /\ finished = <<>>
    /\ documents = Empty

NextBackends == \E backend \in Backends : SyncStandardOn(backend)

SpecBackends == InitBackends /\ [][NextBackends]_vars

\* both services have taken the same calls
SameCalls == runs["rest"] = runs["sql"]

\* C39: after the same sequence of syncStandard calls on the same inputs the
\* REST backend and the direct-SQL backend hold the same logical Standard,
\* Section and Clause rows: the same natural keys and the same value of
\* every attribute, status, publication date and importance included
C39_BackendsInterchangeable ==
    SameCalls => store["rest"] = store["sql"]

ParserCalls ==
    {Call("_parse_clause", text) : text \in ClauseLines}
    \cup {Call("_infer_importance", content) : content \in Bodies}
    \cup {Call("_infer_category", content) : content \in Bodies}
    \cup {Call("_organize_hierarchy", scanned) : scanned \in Scanned}
    \cup {Call("parse_docx", file) : file \in Files}
    \cup {Call("parse_document",
               [file |-> file, mime_type |-> mime_type,
                installed |-> installed]) :
             file \in Files, mime_type \in MimeTypes,
             installed \in {Libraries, {}}}

InitParser ==
    /\ now = 0
    /\ allowed_folders = {}
    /\ parents = [f \in FileIds |-> {"A"}]
    /\ trashed = [f \in FileIds |-> FALSE]
    /\ cache_dir = Empty
    /\ metadata_cache = Empty
    /\ last \in ParserCalls
    /\ cleanup = NoCleanup
    /\ threads = NoThreads
    /\ NoSync

NextParser ==
    \/ ParseClause
    \/ InferImportance
    \/ InferCategory
    \/ OrganizeHierarchy
    \/ ParseDocx
    \/ ParseDocumentFile

SpecParser == InitParser /\ [][NextParser]_vars

(***************************************************************************)
(* Claims about the parser, checked in SpecParser.                         *)
(***************************************************************************)
\* C23 as stated: parsing the line "3.2.1 Hazard Control: Wear PPE at all
\* times." yields the number "3.2.1", the title "Hazard Control", the content
\* "Wear PPE at all times.", the category "Safety" and the importance
\* "REQUIRED".
C23_HazardControlRequired ==
    (last.op = "_parse_clause" /\ last.text = HazardControl) =>
        /\ last.result # Absent
        /\ last.result[1].number = <<"3", ".", "2", ".", "1">>
        /\ last.result[1].title = Some(<<"H", "a", "z", "a", "r", "d", " ",
                "C", "o", "n", "t", "r", "o", "l">>)
        /\ last.result[1].content = <<"W", "e", "a", "r", " ", "P", "P", "E",
                                      " ", "a", "t", " ", "a", "l", "l", " ",
                                              "t", "i", "m", "e", "s", ".">>
        /\ last.result[1].category = "Safety"
        /\ last.result[1].importance = "REQUIRED"

\* C23 as amended: that line yields the number "3.2.1", the title "Hazard
\* Control", the content "Wear PPE at all times.", the category "Safety" and
\* the importance "STANDARD", the content holding no word of any importance
\* set.
C23_HazardControlClause ==
    (last.op = "_parse_clause" /\ last.text = HazardControl) =>
        /\ last.result # Absent
        /\ last.result[1].number = <<"3", ".", "2", ".", "1">>
        /\ last.result[1].title = Some(<<"H", "a", "z", "a", "r", "d", " ",
                "C", "o", "n", "t", "r", "o", "l">>)
        /\ last.result[1].content = <<"W", "e", "a", "r", " ", "P", "P", "E",
                                      " ", "a", "t", " ", "a", "l", "l", " ",
                                              "t", "i", "m", "e", "s", ".">>
        /\ last.result[1].category = "Safety"
        /\ last.result[1].importance = "STANDARD"

C23_Witness ==
    /\ last.op = "_parse_clause"
    /\ last.text = HazardControl
    /\ last.result # Absent

\* C24: the importance is that of the first of the classes REQUIRED,
\* CRITICAL, RECOMMENDED, OPTIONAL, in this order, that has a keyword
\* occurring in the body, and STANDARD when none has; so a body with both
\* "must" and "hazard" is REQUIRED.
C24_ImportancePriority ==
    last.op = "_infer_importance" =>
        LET body == lower(last.content)
            order == <<"REQUIRED", "CRITICAL", "RECOMMENDED", "OPTIONAL">>
            keywords ==
                <<{<<"m", "u", "s", "t">>, <<"s", "h", "a", "l", "l">>, <<"r",
                        "e", "q", "u", "i", "r", "e", "d">>, <<"m", "a", "n",
                                "d", "a", "t", "o", "r", "y">>},
                  {<<"c", "r", "i", "t", "i", "c", "a", "l">>, <<"d", "a",
                          "n", "g", "e", "r">>, <<"w", "a", "r", "n", "i",
                                  "n", "g">>, <<"h", "a", "z", "a", "r",
                                          "d">>},
                  {<<"s", "h", "o", "u", "l", "d">>, <<"r", "e", "c", "o",
                          "m", "m", "e", "n", "d">>, <<"s", "u", "g", "g",
                                  "e", "s", "t">>},
                  {<<"m", "a", "y">>, <<"o", "p", "t", "i", "o", "n", "a",
                                        "l">>, <<"c", "o", "n", "s", "i", "d",
                                                "e", "r">>}>>
            hits == {k \in DOMAIN order :
                        \E word \in keywords[k] : find(body, word) > 0}
        IN  /\ last.result =
                  IF hits = {} THEN "STANDARD"
                  ELSE order[CHOOSE k \in hits : \A j \in hits : k <= j]
            /\ (find(body, <<"m", "u", "s", "t">>) > 0 /\ find(body, <<"h",
                    "a", "z", "a", "r", "d">>) > 0)
               => last.result = "REQUIRED"

C24_Witness ==
    /\ last.op = "_infer_importance"
    /\ last.content = HazardZones
    /\ last.result = "REQUIRED"

\* C25: the category is the first of Safety, Equipment, Documentation,
\* Process, Moisture Control, Inspection, in this order, that has a keyword
\* occurring in the body, and General when none has.
C25_CategoryPriority ==
    last.op = "_infer_category" =>
        LET body == lower(last.content)
            order == <<"Safety", "Equipment", "Documentation", "Process",
                       "Moisture Control", "Inspection">>
            keywords ==
                <<{<<"s", "a", "f", "e", "t", "y">>, <<"h", "a", "z", "a",
                        "r", "d">>, <<"p", "r", "o", "t", "e", "c", "t", "i",
                                      "o", "n">>, <<"p", "p", "e">>},
                  {<<"e", "q", "u", "i", "p", "m", "e", "n", "t">>, <<"d",
                          "e", "h", "u", "m", "i", "d", "i", "f", "i", "e",
                                  "r">>, <<"a", "i", "r", " ", "m", "o", "v",
                                          "e", "r">>},
                  {<<"d", "o", "c", "u", "m", "e", "n", "t">>, <<"r", "e",
                          "c", "o", "r", "d">>, <<"r", "e", "p", "o", "r",
                                  "t">>, <<"l", "o", "g">>},
                  {<<"p", "r", "o", "c", "e", "d", "u", "r", "e">>, <<"p",
                          "r", "o", "c", "e", "s", "s">>, <<"m", "e", "t",
                                  "h", "o", "d">>, <<"s", "t", "e", "p">>},
                  {<<"m", "o", "i", "s", "t", "u", "r", "e">>, <<"h", "u",
                          "m", "i", "d", "i", "t", "y">>, <<"d", "r", "y",
                                  "i", "n", "g">>, <<"w", "a", "t", "e",
                                          "r">>},
                  {<<"i", "n", "s", "p", "e", "c", "t">>, <<"a", "s", "s",
                          "e", "s", "s">>, <<"e", "v", "a", "l", "u", "a",
                                  "t">>, <<"t", "e", "s", "t">>}>>
            hits == {k \in DOMAIN order :
                        \E word \in keywords[k] : find(body, word) > 0}
        IN  last.result =
                IF hits = {} THEN "General"
                ELSE order[CHOOSE k \in hits : \A j \in hits : k <= j]

\* a body with a word of a later set before a word of an earlier set
C25_Witness ==
    /\ last.op = "_infer_category"
    /\ last.content = <<"w", "a", "t", "e", "r", " ", "E", "Q", "U", "I", "P",
                        "M", "E", "N", "T">>
    /\ last.result = "Equipment"

\* C26: the clause number is the leading numeric token without its trailing
\* period; with a colon among the first 100 characters of the remainder the
\* title is what precedes the first colon and the body what follows it; else
\* with a period among the first 50 characters, after a prefix shorter than
\* 50 characters, the title is that prefix and the body the rest; else there
\* is no title and the body is the whole remainder.
C26_ClauseDecomposition ==
    (last.op = "_parse_clause" /\ last.result # Absent) =>
        LET clause == last.result[1]
            blank == CHOOSE i \in 1..Len(last.text) :
                        /\ last.text[i] = " "
                        /\ \A j \in 1..(i - 1) : last.text[j] # " "
            token == SubSeq(last.text, 1, blank - 1)
            rest == strip(SubSeq(last.text, blank + 1, Len(last.text)))
            first(c) == {i \in 1..Len(rest) :
                            /\ rest[i] = c
                            /\ \A j \in 1..(i - 1) : rest[j] # c}
            carved(i) ==
                /\ clause.title = Some(strip(SubSeq(rest, 1, i - 1)))
                /\ clause.content = strip(SubSeq(rest, i + 1, Len(rest)))
        IN  /\ clause.number =
                  IF token[Len(token)] = "."
                  THEN SubSeq(token, 1, Len(token) - 1)
                  ELSE token
            /\ IF \E i \in first(":") : i <= 100
               THEN \A i \in first(":") : carved(i)
               ELSE IF \E i \in first(".") : i <= 50 /\ i - 1 < 50
               THEN \A i \in first(".") : carved(i)
               ELSE clause.title = Absent /\ clause.content = rest

\* the title is carved off at a period although a colon follows, which is
\* beyond the 100th character
C26_Witness ==
    /\ last.op = "_parse_clause"
    /\ last.result # Absent
    /\ last.result[1].title # Absent
    /\ find(last.result[1].content, <<":">>) > 50
    /\ find(last.result[1].title[1], <<":">>) = 0
    /\ Len(last.result[1].title[1]) = 49

\* C27: the hierarchy groups every clause under its section number, a clause
\* with no section under the synthetic key "general", and gives every section
\* a clause count that is the number of clauses with that section's number.
C27_HierarchyGroups ==
    last.op = "_organize_hierarchy" =>
        LET groups == last.result.clause_by_section
            bucket(clause) ==
                IF clause.section_number = Absent THEN Some(<<"g", "e", "n",
                        "e", "r", "a", "l">>)
                ELSE clause.section_number
        IN  /\ \A k \in DOMAIN last.clauses :
                  /\ bucket(last.clauses[k]) \in DOMAIN groups
                  /\ \E n \in DOMAIN groups[bucket(last.clauses[k])] :
                        groups[bucket(last.clauses[k])][n] = last.clauses[k]
            /\ \A k \in DOMAIN last.result.sections :
                  last.result.sections[k].clause_count =
                      Cardinality({n \in DOMAIN last.clauses :
                          last.clauses[n].section_number =
                              Some(last.result.sections[k].number)})

\* C28: parse_document raises for no file and no MIME type; for a MIME type
\* that names no supported format, and when the parser it picks fails (no
\* MIME type, a file of another format, a library that is not installed, a
\* heading style whose level is no number), it returns the empty structure.
C28_ParseNeverRaises ==
    last.op = "parse_document" =>
        /\ ~last.result.raised
        /\ LET named(words) ==
                   /\ last.mime_type # Absent
                   /\ \E word \in words : find(last.mime_type[1], word) > 0
               format ==
                   IF named({<<"p", "d", "f">>}) THEN "pdf"
                   ELSE IF named({<<"d", "o", "c", "u", "m", "e", "n", "t">>,
                                    <<"d", "o", "c", "x">>}) THEN "docx"
                   ELSE IF named({<<"t", "e", "x", "t">>, <<"p", "l", "a",
                           "i", "n">>}) THEN "text"
                   ELSE "none"
               paragraphs == Paragraphs(last.file.pages)
           IN  (\/ format # last.file.format
                \/ format = "pdf" /\ "pdfplumber" \notin last.installed
                \/ format = "docx" /\ "docx" \notin last.installed
                \/ /\ format = "docx"
                   /\ \E k \in DOMAIN paragraphs :
                         paragraphs[k].style = <<"H", "e", "a", "d", "i", "n",
                                 "g", " ", "A", "p", "p", "e", "n", "d", "i",
                                         "x">>)
               => last.result.value = _empty_structure

\* no MIME type: the test 'pdf' in mime_type raises inside parse_document
C28_Witness ==
    /\ last.op = "parse_document"
    /\ last.mime_type = Absent
    /\ Paragraphs(last.file.pages) # <<>>
    /\ last.result = Return(_empty_structure)

\* C29: of a .docx file every heading paragraph becomes a section, in order,
\* and every other paragraph that matches the clause pattern becomes a clause
\* whose section number is the number of the last heading before it, and None
\* when no heading precedes it.
C29_DocxHeadingsAndClauses ==
    (last.op = "parse_docx" /\ last.file.format = "docx") =>
        LET paragraphs == Paragraphs(last.file.pages)
            heading(k) == startswith(paragraphs[k].style, <<"H", "e", "a",
                    "d", "i", "n", "g">>)
            headings == {k \in DOMAIN paragraphs : heading(k)}
            numbered == {k \in DOMAIN paragraphs :
                            /\ ~heading(k)
                            /\ clause_pattern(strip(paragraphs[k].text)) # 0}
            before(set, k) == Cardinality({j \in set : j < k})
            sections == last.result.value.sections
            clauses == last.result.value.clauses
        IN  /\ Len(sections) = Cardinality(headings)
            /\ \A k \in headings :
                  sections[before(headings, k) + 1].content =
                      strip(paragraphs[k].text)
            /\ Len(clauses) = Cardinality(numbered)
            /\ \A k \in numbered :
                  clauses[before(numbered, k) + 1].section_number =
                      IF before(headings, k) = 0 THEN Absent
                      ELSE Some(sections[before(headings, k)].number)

\* the clauses of the lines carry the number of the last section heading
\* line before them, Absent when there is none
SectionOfLastHeading(lines, clauses) ==
    LET heading(k) == section_pattern(strip(lines[k].text)) # Absent
        headings == {k \in DOMAIN lines : heading(k)}
        numbered == {k \in DOMAIN lines :
                        /\ ~heading(k)
                        /\ clause_pattern(strip(lines[k].text)) # 0}
        last_heading(k) ==
            CHOOSE h \in headings :
                h < k /\ \A o \in headings : o < k => o <= h
    IN  /\ Len(clauses) = Cardinality(numbered)
        /\ \A k \in numbered :
              clauses[Cardinality({j \in numbered : j < k}) + 1].section_number
                  = IF \E h \in headings : h < k
                    THEN section_pattern(strip(lines[last_heading(k)].text))
                    ELSE Absent

\* C38: of a .pdf file every clause carries the number of the most recent
\* section heading line before it in the document, on its page or on an
\* earlier one, and no section number only when no heading line precedes it
\* in the whole document.
C38_SectionAcrossPages ==
    (last.op = "parse_document" /\ last.result.value.type = "pdf") =>
        SectionOfLastHeading(Paragraphs(last.file.pages),
                             last.result.value.clauses)

====
